---------------------------- MODULE Spec2Model ----------------------------
(***************************************************************************)
(* Model of the browser front end of the AI data platform                  *)
(* (webinterface/static/js): the streaming upload decoder of               *)
(* FileUploadManager, its progress arithmetic, the partial-JSON renderer   *)
(* and the batch bookkeeping of uploadFiles.                                *)
(*                                                                         *)
(* Texts are TLA+ strings handled with Len, SubSeq and \o, so the decoder  *)
(* is modelled on the characters it really sees.  Progress-bar widths are  *)
(* numbers of fiftieths of a percent (20% is 1000), which represents the  *)
(* widths computed for the modelled events exactly; the rounding of IEEE   *)
(* doubles is not modelled.                                                *)
(***************************************************************************)
EXTENDS Integers, Sequences, FiniteSets, TLC

(***************************************************************************)
(* String helpers: the JavaScript String methods the handlers use.         *)
(***************************************************************************)

\* s[i] for a 1-based index i
CharAt(s, i) == SubSeq(s, i, i)

\* s.substring(n): the text from 0-based offset n to the end
Substring(s, n) == SubSeq(s, n + 1, Len(s))

\* s.startsWith(p)
StartsWith(s, p) == Len(s) >= Len(p) /\ SubSeq(s, 1, Len(p)) = p

\* s.endsWith(p)
EndsWith(s, p) == Len(s) >= Len(p) /\ SubSeq(s, Len(s) - Len(p) + 1, Len(s)) = p

\* the characters String.prototype.trim and the regular expression \s treat
\* as white space (those that occur in the modelled texts)
IsSpace(c) == c \in {" ", "\n", "\t"}

\* the indices of the characters of s that are not white space
Inked(s) == {i \in 1..Len(s) : ~IsSpace(CharAt(s, i))}

SetMin(S) == CHOOSE x \in S : \A y \in S : x <= y

SetMax(S) == CHOOSE x \in S : \A y \in S : x >= y

\* the text without its trailing white space
TrimRight(s) == IF Inked(s) = {} THEN "" ELSE SubSeq(s, 1, SetMax(Inked(s)))

\* s.trim()
Trim(s) ==
    IF Inked(s) = {} THEN "" ELSE SubSeq(s, SetMin(Inked(s)), SetMax(Inked(s)))

\* s.split('\n'): the pieces between line feeds, empty pieces included
SplitLines(s) ==
    LET feeds == {i \in 1..Len(s) : CharAt(s, i) = "\n"}
        n == Cardinality(feeds)
        feed(k) == CHOOSE i \in feeds : Cardinality({j \in feeds : j < i}) = k - 1
    IN  [k \in 1..(n + 1) |->
            SubSeq(s, IF k = 1 THEN 1 ELSE feed(k - 1) + 1,
                      IF k = n + 1 THEN Len(s) ELSE feed(k) - 1)]

\* s.split(/\s+/).length: one more than the number of maximal runs of
\* white space (the empty string gives one piece)
SplitSpaceLength(s) ==
    Cardinality({i \in 1..Len(s) :
                    IsSpace(CharAt(s, i))
                    /\ (i = 1 \/ ~IsSpace(CharAt(s, i - 1)))}) + 1

\* s.toLowerCase() on the letters that occur in file names and MIME types
LowerChar(c) ==
    CASE c = "A" -> "a" [] c = "B" -> "b" [] c = "D" -> "d" [] c = "E" -> "e"
      [] c = "F" -> "f" [] c = "G" -> "g" [] c = "I" -> "i" [] c = "M" -> "m"
      [] c = "N" -> "n" [] c = "P" -> "p" [] c = "T" -> "t" [] c = "X" -> "x"
      [] OTHER -> c

RECURSIVE ToLowerCase(_)
ToLowerCase(s) ==
    IF Len(s) = 0 THEN s
    ELSE LowerChar(CharAt(s, 1)) \o ToLowerCase(Substring(s, 1))

(***************************************************************************)
(* JSON.parse.  A scanner over the characters of the text for the JSON     *)
(* grammar of objects, arrays, strings (with backslash escapes) and        *)
(* unsigned integers, white space allowed between tokens.  It accepts      *)
(* exactly the texts of that grammar and collects the members of a         *)
(* top-level object.  The literals true, false and null, signs, fractions  *)
(* and exponents do not occur in the modelled texts.                       *)
(***************************************************************************)

IsJsonSpace(c) == c \in {" ", "\n", "\t", "\r"}

IsDigit(c) == c \in {"0", "1", "2", "3", "4", "5", "6", "7", "8", "9"}

DigitVal(c) ==
    CASE c = "0" -> 0 [] c = "1" -> 1 [] c = "2" -> 2 [] c = "3" -> 3
      [] c = "4" -> 4 [] c = "5" -> 5 [] c = "6" -> 6 [] c = "7" -> 7
      [] c = "8" -> 8 [] c = "9" -> 9

\* the number a run of digits denotes
RECURSIVE ToNat(_)
ToNat(s) ==
    IF Len(s) = 0 THEN 0
    ELSE 10 * ToNat(SubSeq(s, 1, Len(s) - 1)) + DigitVal(CharAt(s, Len(s)))

\* The string a JSON string body denotes: \n is a line feed, a backslash
\* before any other character stands for that character.
\* the backslash at index i opens an escape: it ends an odd run of
\* backslashes
Escaping(s, i) ==
    /\ CharAt(s, i) = "\\"
    /\ LET before == {j \in 1..(i - 1) : CharAt(s, j) # "\\"}
           start == IF before = {} THEN 0 ELSE SetMax(before)
       IN  (i - start) % 2 = 1

\* what the character at index i contributes to the string denoted
UnescapeAt(s, i) ==
    IF Escaping(s, i) THEN ""
    ELSE IF i > 1 /\ Escaping(s, i - 1)
         THEN (IF CharAt(s, i) = "n" THEN "\n" ELSE CharAt(s, i))
         ELSE CharAt(s, i)

\* the contributions of the characters lo..hi, in order (the range is
\* halved to keep the evaluation shallow)
RECURSIVE UnescapeRange(_, _, _)
UnescapeRange(s, lo, hi) ==
    IF lo > hi THEN ""
    ELSE IF lo = hi THEN UnescapeAt(s, lo)
    ELSE LET mid == (lo + hi) \div 2
         IN  UnescapeRange(s, lo, mid) \o UnescapeRange(s, mid + 1, hi)

Unescape(s) == UnescapeRange(s, 1, Len(s))

\* a JavaScript value: a string, a number, a nested object or array (kept
\* as its text), or undefined
Undefined == [t |-> "undef", s |-> "", n |-> 0]

StrVal(s) == [t |-> "str", s |-> s, n |-> 0]

NumVal(n) == [t |-> "num", s |-> "", n |-> n]

DecodeValue(v) ==
    IF CharAt(v, 1) = "\"" THEN StrVal(Unescape(SubSeq(v, 2, Len(v) - 1)))
    ELSE IF IsDigit(CharAt(v, 1)) THEN NumVal(ToNat(v))
    ELSE [t |-> "obj", s |-> v, n |-> 0]

JsonStart ==
    [mode |-> "val", stack |-> "", members |-> << >>, key |-> "",
     kStart |-> 0, vStart |-> 0]

JsonTop(st) ==
    IF Len(st.stack) = 0 THEN "" ELSE CharAt(st.stack, Len(st.stack))

JsonPop(st) ==
    [st EXCEPT !.mode = "post", !.stack = SubSeq(@, 1, Len(@) - 1)]

JsonErr(st) == [st EXCEPT !.mode = "err"]

\* the scanner after a complete value, reading c = s[i]
JsonAfterValue(s, st, i) ==
    LET c == CharAt(s, i)
        st1 == IF st.stack = "{" /\ c \in {",", "}"}
               THEN [st EXCEPT !.members =
                        Append(@, [k |-> st.key,
                                   v |-> DecodeValue(
                                           TrimRight(SubSeq(s, st.vStart, i - 1)))])]
               ELSE st
    IN  IF IsJsonSpace(c) THEN [st EXCEPT !.mode = "post"]
        ELSE IF c = "," /\ JsonTop(st) = "{" THEN [st1 EXCEPT !.mode = "okey"]
        ELSE IF c = "," /\ JsonTop(st) = "[" THEN [st1 EXCEPT !.mode = "val"]
        ELSE IF c = "}" /\ JsonTop(st) = "{" THEN JsonPop(st1)
        ELSE IF c = "]" /\ JsonTop(st) = "[" THEN JsonPop(st1)
        ELSE JsonErr(st)

\* one step of the scanner on the character s[i]
JsonStep(s, st, i) ==
    LET c == CharAt(s, i) IN
    CASE st.mode \in {"val", "aval0"} ->
            LET st1 == IF st.stack = "{" THEN [st EXCEPT !.vStart = i] ELSE st
            IN  IF IsJsonSpace(c) THEN st
                ELSE IF c = "{"
                     THEN [st1 EXCEPT !.mode = "okey0", !.stack = @ \o "{"]
                ELSE IF c = "["
                     THEN [st1 EXCEPT !.mode = "aval0", !.stack = @ \o "["]
                ELSE IF c = "\"" THEN [st1 EXCEPT !.mode = "str"]
                ELSE IF c = "0" THEN [st1 EXCEPT !.mode = "num0"]
                ELSE IF IsDigit(c) THEN [st1 EXCEPT !.mode = "num"]
                ELSE IF c = "]" /\ st.mode = "aval0" THEN JsonPop(st)
                ELSE JsonErr(st)
      [] st.mode \in {"okey0", "okey"} ->
            IF IsJsonSpace(c) THEN st
            ELSE IF c = "\"" THEN [st EXCEPT !.mode = "kstr", !.kStart = i]
            ELSE IF c = "}" /\ st.mode = "okey0" THEN JsonPop(st)
            ELSE JsonErr(st)
      [] st.mode = "kstr" ->
            IF c = "\""
            THEN [st EXCEPT !.mode = "colon",
                            !.key = IF st.stack = "{"
                                    THEN Unescape(SubSeq(s, st.kStart + 1, i - 1))
                                    ELSE @]
            ELSE IF c = "\\" THEN [st EXCEPT !.mode = "kesc"]
            ELSE IF c \in {"\n", "\t", "\r"} THEN JsonErr(st)
            ELSE st
      [] st.mode = "kesc" ->
            IF c \in {"\"", "\\", "/", "b", "f", "n", "r", "t"}
            THEN [st EXCEPT !.mode = "kstr"] ELSE JsonErr(st)
      [] st.mode = "colon" ->
            IF IsJsonSpace(c) THEN st
            ELSE IF c = ":" THEN [st EXCEPT !.mode = "val"]
            ELSE JsonErr(st)
      [] st.mode = "str" ->
            IF c = "\"" THEN [st EXCEPT !.mode = "post"]
            ELSE IF c = "\\" THEN [st EXCEPT !.mode = "sesc"]
            ELSE IF c \in {"\n", "\t", "\r"} THEN JsonErr(st)
            ELSE st
      [] st.mode = "sesc" ->
            IF c \in {"\"", "\\", "/", "b", "f", "n", "r", "t"}
            THEN [st EXCEPT !.mode = "str"] ELSE JsonErr(st)
      [] st.mode = "num" ->
            IF IsDigit(c) THEN st ELSE JsonAfterValue(s, st, i)
      [] st.mode = "num0" ->
            IF IsDigit(c) THEN JsonErr(st) ELSE JsonAfterValue(s, st, i)
      [] st.mode = "post" -> JsonAfterValue(s, st, i)
      [] OTHER -> st

\* the scanner run over the characters lo..hi of s, in order (the range
\* is halved to keep the evaluation shallow)
RECURSIVE JsonRange(_, _, _, _)
JsonRange(s, st, lo, hi) ==
    IF lo > hi \/ st.mode = "err" THEN st
    ELSE IF lo = hi THEN JsonStep(s, st, lo)
    ELSE LET mid == (lo + hi) \div 2
         IN  JsonRange(s, JsonRange(s, st, lo, mid), mid + 1, hi)

\* JSON.parse(s): ok is FALSE where JSON.parse throws a SyntaxError;
\* members holds the members of the object parsed, in textual order (empty
\* for a value that is not an object)
JSONParse(s) ==
    LET st == JsonRange(s, JsonStart, 1, Len(s))
        ok == st.mode \in {"post", "num", "num0"} /\ st.stack = ""
    IN  [ok |-> ok, members |-> IF ok THEN st.members ELSE << >>]

\* data[key]: the value of the last member named key, undefined without one
RECURSIVE Lookup(_, _)
Lookup(members, key) ==
    IF members = << >> THEN Undefined
    ELSE IF members[Len(members)].k = key THEN members[Len(members)].v
    ELSE Lookup(SubSeq(members, 1, Len(members) - 1), key)

(***************************************************************************)
(* JSON.stringify(JSON.parse(s), null, 2) for a text s that JSON.parse     *)
(* accepts: the same tokens, white space between them dropped, one member  *)
(* or element per line indented by two spaces per nesting level, ": "      *)
(* after a key, and an empty object or array printed closed.               *)
(***************************************************************************)

RECURSIVE Indent(_)
Indent(depth) == IF depth <= 0 THEN "" ELSE "  " \o Indent(depth - 1)

\* one character of the text: fresh says that a brace or bracket was just
\* opened and nothing has been printed inside it yet
PrettyStep(s, st, i) ==
    LET c == CharAt(s, i)
        lead == IF st.fresh THEN "\n" \o Indent(st.depth) ELSE ""
    IN  CASE st.mode = "esc" -> [st EXCEPT !.out = @ \o c, !.mode = "str"]
          [] st.mode = "str" ->
                [st EXCEPT !.out = @ \o c,
                           !.mode = IF c = "\\" THEN "esc"
                                    ELSE IF c = "\"" THEN "out" ELSE "str"]
          [] OTHER ->
                IF IsJsonSpace(c) THEN st
                ELSE IF c \in {"}", "]"}
                THEN [st EXCEPT
                        !.out = @ \o (IF st.fresh THEN ""
                                      ELSE "\n" \o Indent(st.depth - 1)) \o c,
                        !.depth = @ - 1, !.fresh = FALSE]
                ELSE IF c \in {"{", "["}
                THEN [st EXCEPT !.out = @ \o lead \o c, !.depth = @ + 1,
                                !.fresh = TRUE]
                ELSE IF c = ","
                THEN [st EXCEPT !.out = @ \o ",\n" \o Indent(st.depth)]
                ELSE IF c = ":" THEN [st EXCEPT !.out = @ \o ": "]
                ELSE [st EXCEPT !.out = @ \o lead \o c, !.fresh = FALSE,
                                !.mode = IF c = "\"" THEN "str" ELSE "out"]

\* the printer run over the characters lo..hi of s, in order (the range
\* is halved to keep the evaluation shallow; the depth is never negative
\* on a text that JSON.parse accepts)
RECURSIVE PrettyRange(_, _, _, _)
PrettyRange(s, st, lo, hi) ==
    IF lo > hi \/ st.depth < 0 THEN st
    ELSE IF lo = hi THEN PrettyStep(s, st, lo)
    ELSE LET mid == (lo + hi) \div 2
         IN  PrettyRange(s, PrettyRange(s, st, lo, mid), mid + 1, hi)

JSONStringifyPretty(s) ==
    PrettyRange(s, [out |-> "", depth |-> 0, mode |-> "out", fresh |-> FALSE],
                1, Len(s)).out

(***************************************************************************)
(* FileUploadManager.displayStreamingJsonChunk(fileItem, chunk, jsonBuffer)*)
(***************************************************************************)

\* the counters of the loop over the characters of chunk after the
\* iteration with (0-based) index i
Occurrences(chunk, i, char) ==
    Cardinality({j \in 1..(i + 1) : CharAt(chunk, j) = char})

BraceCount(chunk, i) == Occurrences(chunk, i, "{") - Occurrences(chunk, i, "}")

BracketCount(chunk, i) == Occurrences(chunk, i, "[") - Occurrences(chunk, i, "]")

\* the test of the loop without its (char === '}' || char === ']') part
LastBalancedIndex(chunk) ==
    LET balanced == {i \in 0..(Len(chunk) - 1) :
                        /\ BraceCount(chunk, i) = 0
                        /\ BracketCount(chunk, i) = 0}
    IN  IF balanced = {} THEN -1 ELSE SetMax(balanced)

\* lastCompleteIndex after the loop: the last index at which both counters
\* are zero on a closing brace or bracket, -1 when there is none
LastCompleteIndex(chunk) ==
    LET complete == {i \in 0..(Len(chunk) - 1) :
                        /\ CharAt(chunk, i + 1) \in {"}", "]"}
                        /\ BraceCount(chunk, i) = 0
                        /\ BracketCount(chunk, i) = 0}
    IN  IF complete = {} THEN -1 ELSE SetMax(complete)

StreamingMarker == "\n\n... (streaming)"

\* the textContent given to the .streaming-json pane; the jsonBuffer
\* argument is not read by the method
DisplayStreamingJsonChunk(chunk, jsonBuffer) ==
    IF JSONParse(chunk).ok THEN JSONStringifyPretty(chunk)
    ELSE LET lastCompleteIndex == LastCompleteIndex(chunk) IN
         IF lastCompleteIndex > 0
         THEN LET cleanContent == SubSeq(chunk, 1, lastCompleteIndex + 1) IN
              (IF JSONParse(cleanContent).ok
               THEN JSONStringifyPretty(cleanContent)
               ELSE cleanContent)
              \o (IF Len(cleanContent) < Len(chunk) THEN StreamingMarker ELSE "")
         ELSE chunk \o StreamingMarker

(***************************************************************************)
(* Values and arithmetic of the upload handlers.                           *)
(***************************************************************************)

\* a width of n percent, in fiftieths of a percent
W(n) == n * 50

\* String(n) for a natural number n
RECURSIVE NatToString(_)
NatToString(n) ==
    LET d == CASE n % 10 = 0 -> "0" [] n % 10 = 1 -> "1" [] n % 10 = 2 -> "2"
               [] n % 10 = 3 -> "3" [] n % 10 = 4 -> "4" [] n % 10 = 5 -> "5"
               [] n % 10 = 6 -> "6" [] n % 10 = 7 -> "7" [] n % 10 = 8 -> "8"
               [] n % 10 = 9 -> "9"
    IN  IF n < 10 THEN d ELSE NatToString(n \div 10) \o d

\* a non-negative rational n/d and Math.min on two of them
Rat(n, d) == [n |-> n, d |-> d]

MathMin(a, b) == IF a.n * b.d <= b.n * a.d THEN a ELSE b

\* JavaScript truthiness of a value
Truthy(v) ==
    CASE v.t = "undef" -> FALSE
      [] v.t = "str" -> v.s # ""
      [] v.t = "num" -> v.n # 0
      [] OTHER -> TRUE

\* the text a value gives as textContent (undefined gives the empty text)
TextOf(v) ==
    CASE v.t = "str" -> v.s
      [] v.t = "num" -> NatToString(v.n)
      [] v.t = "obj" -> "[object Object]"
      [] OTHER -> ""

\* the promise returned by an upload call: resolve and reject act on a
\* pending promise only
PendingPromise == [state |-> "pending", value |-> << >>, reason |-> ""]

\* resolve without the settle-once rule: a later settlement overwrites
ResolveOverwriting(promise, data) ==
    [state |-> "fulfilled", value |-> data, reason |-> ""]

Resolve(promise, data) ==
    IF promise.state = "pending"
    THEN [state |-> "fulfilled", value |-> data, reason |-> ""]
    ELSE promise

Reject(promise, reason) ==
    IF promise.state = "pending"
    THEN [state |-> "rejected", value |-> << >>, reason |-> reason]
    ELSE promise

\* the file item created by uploadFiles for one file
NewFileItem ==
    [statusText |-> "Pending...", width |-> 0, color |-> "", classes |-> {},
     uploadResults |-> << >>, streamingJson |-> << >>]

\* the variables closed over by one upload call, with the record of what
\* its handlers did: dispatched (the payloads JSON.parse accepted, each
\* with the members of the event it gave),
\* widthLog (the widths the stream events gave the progress bar) and
\* estimates (the caption sub-progress values computed)
NewClosure ==
    [buffer |-> "", captionBuffer |-> "", jsonBuffer |-> "",
     promise |-> PendingPromise,
     dispatched |-> << >>, widthLog |-> << >>, estimates |-> << >>]

\* progressFill.style.width = w + '%' by a stream event
SetWidth(c, w, by, percent) ==
    [c EXCEPT !.fi.width = w,
              !.up.widthLog = Append(@, [by |-> by, percent |-> percent,
                                         width |-> w])]

\* the percent shown unweighted, as the PDF path does
UnweightedProgress(percent) == W(percent)

\* the weighted part subtracted instead of added
FallingProgress(percent) == W(100) - (percent * W(8)) \div 10

\* the percent added to the transfer band without its weight
UnscaledProgress(percent) == W(20) + W(percent)

\* image path: 20 + (data.percent * 0.8)
ImageTotalProgress(percent) == W(20) + (percent * W(8)) \div 10

\* the estimate without Math.min
UncappedCaptionProgress(wordCount) == Rat(wordCount, 30)

\* image path: Math.min(wordCount / 30, 1)
CaptionProgress(wordCount) == MathMin(Rat(wordCount, 30), Rat(1, 1))

\* the estimate spread over all that is left above the transfer band
CaptionTotalProgressToFull(captionProgress) ==
    W(20) + (captionProgress.n * W(80)) \div captionProgress.d

\* image path: 20 + (30 * 0.8) + (captionProgress * 30 * 0.8)
CaptionTotalProgress(captionProgress) ==
    W(20) + (30 * W(8)) \div 10
          + (captionProgress.n * 30 * W(8)) \div (captionProgress.d * 10)

\* the estimate without Math.min
UncappedJsonProgress(jsonLength) == Rat(jsonLength, 2000)

\* Math.min(jsonLength / maxExpectedLength, 1)
JsonProgress(jsonLength) == MathMin(Rat(jsonLength, 2000), Rat(1, 1))

\* PDF path: 20 + 30 + (jsonProgress * 40)
JsonTotalProgress(jsonProgress) ==
    W(20) + W(30) + (jsonProgress.n * W(40)) \div jsonProgress.d

\* upload transfer: (e.loaded / e.total) * 100 * 0.2
TransferProgress(loaded, total) == (loaded * W(20)) \div total

\* Math.round((e.loaded / e.total) * 100)
RoundedPercent(loaded, total) == (200 * loaded + total) \div (2 * total)

\* displayUploadResults(fileItem, data): the branch taken and the record shown
DisplayUploadResults(c, data) ==
    [c EXCEPT !.fi.uploadResults =
        << [branch |-> IF Truthy(Lookup(data, "document_id"))
                       THEN "pdf" ELSE "image",
            data |-> data] >>]

(***************************************************************************)
(* The readystatechange handlers of uploadImageWithStreaming and           *)
(* uploadPdfWithStreaming.  c is the pair of the file item (fi) and the    *)
(* closure variables (up) of the call; data is the members of the parsed   *)
(* event.                                                                  *)
(***************************************************************************)

\* image path, data.type === 'progress'
ImageProgressEvent(c, data) ==
    LET percent == Lookup(data, "percent")
        stage == Lookup(data, "stage")
        \* a width of 'NaN%' is not valid and leaves the style as it was
        c1 == IF percent.t = "num"
              THEN SetWidth(c, ImageTotalProgress(percent.n), "weight", percent.n)
              ELSE c
    IN  IF Truthy(stage) /\ stage.t # "str"
        THEN c1     \* stage.startsWith is not a function: caught TypeError
        ELSE IF Truthy(stage) /\ StartsWith(stage.s, "CAPTION_CHUNK:")
        THEN LET captionChunk == Substring(stage.s, Len("CAPTION_CHUNK:"))
                 captionBuffer == c1.up.captionBuffer \o captionChunk
                 wordCount == SplitSpaceLength(Trim(captionBuffer))
                 captionProgress == CaptionProgress(wordCount)
                 c2 == SetWidth(c1, CaptionTotalProgress(captionProgress),
                                "caption", wordCount)
             IN  [c2 EXCEPT !.up.captionBuffer = captionBuffer,
                            !.up.estimates = Append(@, [words |-> wordCount,
                                                        value |-> captionProgress]),
                            !.fi.statusText = captionBuffer,
                            !.fi.color = "#10b981"]
        ELSE IF Truthy(stage) /\ StartsWith(stage.s, "OCR_TEXT:")
        THEN LET ocrText == Substring(stage.s, Len("OCR_TEXT:"))
             IN  [c1 EXCEPT !.fi.statusText = "OCR Text: " \o ocrText,
                            !.fi.color = "#3b82f6"]
        ELSE [c1 EXCEPT !.fi.statusText = TextOf(stage), !.fi.color = ""]

\* the stage strings the PDF path shows as plain status
KnownPdfStages ==
    {"Extracting text from PDF", "Text extraction complete",
     "Structuring text with LLM", "Generating keywords", "Keywords generated",
     "Generating vector embeddings", "Vector embeddings generated",
     "Saving to database", "PDF processing complete"}

\* the fragment put in the place of what was accumulated
PdfJsonFragmentReplacing(c, fragment) ==
    LET jsonBuffer == fragment
        jsonLength == Len(jsonBuffer)
        jsonProgress == JsonProgress(jsonLength)
        c1 == SetWidth(c, JsonTotalProgress(jsonProgress), "json", jsonLength)
    IN  [c1 EXCEPT !.up.jsonBuffer = jsonBuffer,
                   !.fi.streamingJson =
                        << DisplayStreamingJsonChunk(fragment, jsonBuffer) >>,
                   !.fi.statusText = "Structuring document...",
                   !.fi.color = "#10b981"]

\* PDF path: the two branches that extend jsonBuffer by a fragment
PdfJsonFragment(c, fragment) ==
    LET jsonBuffer == c.up.jsonBuffer \o fragment
        jsonLength == Len(jsonBuffer)
        jsonProgress == JsonProgress(jsonLength)
        c1 == SetWidth(c, JsonTotalProgress(jsonProgress), "json", jsonLength)
    IN  [c1 EXCEPT !.up.jsonBuffer = jsonBuffer,
                   !.fi.streamingJson =
                        << DisplayStreamingJsonChunk(fragment, jsonBuffer) >>,
                   !.fi.statusText = "Structuring document...",
                   !.fi.color = "#10b981"]

\* the PDF path without the list of status strings: every stage that is
\* not empty extends jsonBuffer
PdfProgressEventAllFragments(c, data) ==
    LET percent == Lookup(data, "percent")
        stage == Lookup(data, "stage")
        c1 == IF percent.t = "num"
              THEN SetWidth(c, W(percent.n), "percent", percent.n)
              ELSE c
    IN  IF Truthy(stage) /\ stage.t # "str"
        THEN c1
        ELSE IF Truthy(stage) /\ StartsWith(stage.s, "STRUCTURED_CHUNK:")
        THEN PdfJsonFragment(c1, Substring(stage.s, Len("STRUCTURED_CHUNK:")))
        ELSE IF Truthy(stage)
        THEN PdfJsonFragment(c1, stage.s)
        ELSE [c1 EXCEPT !.fi.statusText = TextOf(stage), !.fi.color = ""]

\* PDF path, data.type === 'progress'
PdfProgressEvent(c, data) ==
    LET percent == Lookup(data, "percent")
        stage == Lookup(data, "stage")
        c1 == IF percent.t = "num"
              THEN SetWidth(c, W(percent.n), "percent", percent.n)
              ELSE c
    IN  IF Truthy(stage) /\ stage.t # "str"
        THEN c1     \* stage.startsWith is not a function: caught TypeError
        ELSE IF Truthy(stage) /\ StartsWith(stage.s, "STRUCTURED_CHUNK:")
        THEN PdfJsonFragment(c1, Substring(stage.s, Len("STRUCTURED_CHUNK:")))
        ELSE IF Truthy(stage) /\ stage.s \notin KnownPdfStages
        THEN PdfJsonFragment(c1, stage.s)
        ELSE [c1 EXCEPT !.fi.statusText = TextOf(stage), !.fi.color = ""]

\* both paths, data.type === 'complete'
CompleteEvent(c, data) ==
    LET c1 == SetWidth(c, W(100), "complete", 100)
        c2 == [c1 EXCEPT !.fi.statusText = "Upload complete!"]
        c3 == DisplayUploadResults(c2, data)
    IN  [c3 EXCEPT !.up.promise = Resolve(@, data)]

\* the error branch that never reads data.detail
ErrorEventGeneric(c, data) ==
    [c EXCEPT !.up.promise = Reject(@, "Upload failed")]

\* both paths, data.type === 'error'
ErrorEvent(c, data) ==
    LET detail == Lookup(data, "detail")
    IN  [c EXCEPT !.up.promise =
            Reject(@, IF Truthy(detail) THEN TextOf(detail) ELSE "Upload failed")]

\* the chain with a last else that takes any other event for a failure
StreamEventStrict(kind, c, data) ==
    LET type == Lookup(data, "type") IN
    IF type = StrVal("progress")
    THEN IF kind = "image" THEN ImageProgressEvent(c, data)
                           ELSE PdfProgressEvent(c, data)
    ELSE IF type = StrVal("complete") THEN CompleteEvent(c, data)
    ELSE ErrorEvent(c, data)

\* the if / else-if chain on data.type
StreamEvent(kind, c, data) ==
    LET type == Lookup(data, "type") IN
    IF type = StrVal("progress")
    THEN IF kind = "image" THEN ImageProgressEvent(c, data)
                           ELSE PdfProgressEvent(c, data)
    ELSE IF type = StrVal("complete") THEN CompleteEvent(c, data)
    ELSE IF type = StrVal("error") THEN ErrorEvent(c, data)
    ELSE c

\* the body of the loop over lines: a line that starts with 'data: ' is
\* parsed, a SyntaxError is caught and the line skipped
ProcessLine(kind, c, line) ==
    IF StartsWith(line, "data: ")
    THEN LET parsed == JSONParse(Substring(line, 6)) IN
         IF parsed.ok
         THEN StreamEvent(kind,
                          [c EXCEPT !.up.dispatched =
                                Append(@, [payload |-> Substring(line, 6),
                                           data |-> parsed.members])],
                          parsed.members)
         ELSE c
    ELSE c

\* the loop with JSON.parse outside the try: the SyntaxError of a line
\* ends the listener and the lines after it are never looked at
RECURSIVE ProcessLinesUncaught(_, _, _)
ProcessLinesUncaught(kind, c, lines) ==
    IF lines = << >> THEN c
    ELSE IF StartsWith(Head(lines), "data: ")
            /\ ~JSONParse(Substring(Head(lines), 6)).ok
    THEN c
    ELSE ProcessLinesUncaught(kind, ProcessLine(kind, c, Head(lines)),
                              Tail(lines))

RECURSIVE ProcessLines(_, _, _)
ProcessLines(kind, c, lines) ==
    IF lines = << >> THEN c
    ELSE ProcessLines(kind, ProcessLine(kind, c, Head(lines)), Tail(lines))

\* the whole response text taken as new each time
NewDataFromStart(responseText, buffer) == responseText

\* xhr.responseText.substring(buffer.length)
NewData(responseText, buffer) == Substring(responseText, Len(buffer))

\* the readystatechange listener
OnReadyStateChange(kind, c, readyState, responseText) ==
    IF readyState = 3 \/ readyState = 4
    THEN LET newData == NewData(responseText, c.up.buffer)
         IN  ProcessLines(kind, [c EXCEPT !.up.buffer = responseText],
                          SplitLines(newData))
    ELSE c

\* the xhr.upload progress listener
OnUploadProgress(c, lengthComputable, loaded, total) ==
    IF lengthComputable
    THEN [c EXCEPT !.fi.width = TransferProgress(loaded, total),
                   !.fi.statusText = "Uploading file... "
                        \o NatToString(RoundedPercent(loaded, total)) \o "%"]
    ELSE c

\* the load listener
OnLoad(c, status, statusLine) ==
    IF status # 200
    THEN [c EXCEPT !.up.promise =
            Reject(@, "HTTP " \o NatToString(status) \o ": " \o statusLine)]
    ELSE c

\* the error and abort listeners
OnError(c) == [c EXCEPT !.up.promise = Reject(@, "Network error")]

OnAbort(c) == [c EXCEPT !.up.promise = Reject(@, "Upload cancelled")]

(***************************************************************************)
(* The environment: the files the user drops and what the file ingestor    *)
(* sends back.                                                             *)
(***************************************************************************)

\* bounds of the model
MaxLines == 2
UploadTotal == 1

Photo == [name |-> "a.png", type |-> "image/png"]
Scan == [name |-> "B.PDF", type |-> ""]
Paper == [name |-> "d", type |-> "application/pdf"]
Notes == [name |-> "n.txt", type |-> "text/plain"]

FileCatalog == {Photo, Scan, Paper, Notes}

\* the batches a run may drop: every file alone, two uploads side by side,
\* and an upload before and after a file of unsupported type
Batches ==
    {<< f >> : f \in FileCatalog}
    \cup {<< Photo, Scan >>, << Photo, Notes >>, << Notes, Photo >>,
          << Notes, Paper >>}

\* event payloads the ingestor sends, each on a line 'data: <payload>'
Progress50 == "{\"type\":\"progress\",\"percent\":50}"
Progress80 == "{\"type\":\"progress\",\"percent\":80,\"stage\":\"Generating keywords\"}"
Progress30Ocr == "{\"type\":\"progress\",\"percent\":30,\"stage\":\"OCR_TEXT:hi\"}"
Caption29 ==
    "{\"type\":\"progress\",\"percent\":60,\"stage\":\"CAPTION_CHUNK:"
    \o "w w w w w w w w w w w w w w w w w w w w w w w w w w w w w\"}"
Caption1 == "{\"type\":\"progress\",\"percent\":60,\"stage\":\"CAPTION_CHUNK: w\"}"
Complete == "{\"type\":\"complete\",\"document_id\":\"abc123\"}"
ErrorDetail == "{\"type\":\"error\",\"detail\":\"boom\"}"
ErrorPlain == "{\"type\":\"error\"}"
ErrorEmpty == "{\"type\":\"error\",\"detail\":\"\"}"
Malformed == "{not json"
Heartbeat == "{\"type\":\"heartbeat\"}"
ProgressReading == "{\"type\":\"progress\",\"percent\":40,\"stage\":\"Reading\"}"
Untyped == "{\"percent\":99,\"stage\":\"x\"}"
StructuredObjTail ==
    "{\"type\":\"progress\",\"percent\":50,\"stage\":\"STRUCTURED_CHUNK:{\\\"a\\\":[1,{}]}{\\\"b\"}"
StructuredObjQuoted ==
    "{\"type\":\"progress\",\"percent\":50,\"stage\":\"STRUCTURED_CHUNK:{\\\"a\\\":1}{\\\"}\"}"
StructuredHead ==
    "{\"type\":\"progress\",\"percent\":50,\"stage\":\"STRUCTURED_CHUNK:{\\\"a\\\":\"}"
StructuredRest ==
    "{\"type\":\"progress\",\"percent\":55,\"stage\":\"STRUCTURED_CHUNK:1}\"}"

\* a run draws the lines of all its streams from one menu; only the menu
\* "split" lets a line arrive in two pieces, only the menu "transfer" has
\* transfer progress events
MenuNames ==
    {"terminal", "other", "ignored", "errors", "progress", "stages",
     "transfer", "caption", "structured", "split"}

MenuLines(menu) ==
    CASE menu = "terminal" -> {Progress50, Complete, ErrorDetail}
      [] menu = "other" -> {Heartbeat, ErrorPlain, Malformed}
      [] menu = "ignored" -> {Heartbeat, Untyped, Complete}
      [] menu = "errors" -> {ErrorEmpty, ErrorPlain, Complete}
      [] menu = "progress" -> {Progress50, Progress80, Progress30Ocr}
      [] menu = "stages" -> {ProgressReading, Progress80}
      [] menu = "transfer" -> {Progress50}
      [] menu = "caption" -> {Caption29, Caption1, Progress80}
      [] menu = "structured" -> {StructuredObjTail, StructuredHead,
                                 StructuredRest}
      [] menu = "split" -> {Complete}

MenuSplits(menu) == IF menu = "split" THEN 1 ELSE 0

\* the lines that may arrive in two pieces
MenuPieces(menu) == IF menu = "split" THEN {Complete} ELSE {}

MenuTransfers(menu) == IF menu = "transfer" THEN 1 ELSE 0

(***************************************************************************)
(* State.                                                                  *)
(***************************************************************************)

VARIABLES
    files,            \* the batch handed to uploadFiles, << >> before
    fileItems,        \* fileItems[i]: the file item of files[i]
    closures,         \* closures[i]: the closure variables of the upload of files[i]
    xhrs,             \* xhrs[i]: the XMLHttpRequest of the upload of files[i]
    uploadPromises,   \* the indices of the files whose promise was pushed
    resultsProcessed, \* the code after await Promise.allSettled has run
    notifications,    \* the Utils.showNotification calls of uploadFiles
    menu,             \* the menu of this run
    linesLeft,        \* lines the ingestor may still send
    splitsLeft,       \* lines that may still arrive in two pieces
    transfersLeft,    \* transfer progress events that may still fire
    searches,         \* the fetch calls of performSearch, in the order issued
    searchResults,    \* the content of the #searchResults pane
    currentSearchResults, \* window.currentSearchResults, << >> while undefined
    pageNotifications, \* the Utils.showNotification calls of search and chat
    chatHistory,      \* ChatManager.chatHistory
    chatMessages,     \* the children of the #chatMessages element
    sends,            \* the sendMessage calls, in the order issued
    checks,           \* the checkService calls of the running round
    dependencyTree    \* the statuses shown by the last updateDependencyTree

\* the state of the search, chat and status panels
pageVars == << searches, searchResults, currentSearchResults,
               pageNotifications, chatHistory, chatMessages, sends, checks,
               dependencyTree >>

vars == << files, fileItems, closures, xhrs, uploadPromises, resultsProcessed,
           notifications, menu, linesLeft, splitsLeft, transfersLeft,
           pageVars >>

\* a routing that looks at the name before the type
RouteByNameFirst(file) ==
    LET fileName == ToLowerCase(file.name)
        fileType == ToLowerCase(file.type)
    IN  IF fileType = "application/pdf" \/ EndsWith(fileName, ".pdf") THEN "pdf"
        ELSE IF StartsWith(fileType, "image/") THEN "image"
        ELSE "none"

\* the routing of uploadFiles: which upload function a file is given to
Route(file) ==
    LET fileName == ToLowerCase(file.name)
        fileType == ToLowerCase(file.type)
    IN  IF StartsWith(fileType, "image/") THEN "image"
        ELSE IF fileType = "application/pdf" \/ EndsWith(fileName, ".pdf")
             THEN "pdf"
        ELSE "none"

Endpoint(kind) ==
    CASE kind = "image" -> "/ingest_image/stream/"
      [] kind = "pdf" -> "/ingest_pdf/stream/"
      [] OTHER -> ""

\* the request of one upload after xhr.open and xhr.send (readyState 1; 0
\* for a file that starts no request).  responseText is the body received
\* so far, tail the rest of a line whose first piece has arrived, ended the
\* final event fired (load, error or abort), status the status the load
\* listener read (0 before), loaded the bytes uploaded;
\* sent (the payloads of the lines sent), wellFormed (those of them that
\* are JSON texts) and split (a line has arrived in two pieces) record the
\* history.
NewXhr(kind) ==
    [kind |-> kind, endpoint |-> Endpoint(kind),
     readyState |-> IF kind = "none" THEN 0 ELSE 1,
     responseText |-> "", tail |-> "", ended |-> "", status |-> 0,
     loaded |-> 0,
     sent |-> << >>, wellFormed |-> << >>, split |-> FALSE,
     cutLine |-> 0, cutInside |-> FALSE]

\* the #searchResults pane: kind is what it shows, by the search (its
\* index in searches) that wrote it
BlankPane == [kind |-> "blank", items |-> << >>, message |-> "", by |-> 0]

\* the panels after the constructors of the managers, before the first
\* health check round
PageInit ==
    /\ searches = << >>
    /\ searchResults = BlankPane
    /\ currentSearchResults = << >>
    /\ pageNotifications = << >>
    /\ chatHistory = << >>
    /\ chatMessages = << >>
    /\ sends = << >>
    /\ checks = << >>
    /\ dependencyTree = << >>

Init ==
    /\ files = << >>
    /\ fileItems = << >>
    /\ closures = << >>
    /\ xhrs = << >>
    /\ uploadPromises = << >>
    /\ resultsProcessed = FALSE
    /\ notifications = << >>
    /\ menu \in MenuNames
    /\ linesLeft = MaxLines
    /\ splitsLeft = MenuSplits(menu)
    /\ transfersLeft = MenuTransfers(menu)
    /\ PageInit

Cell(i) == [fi |-> fileItems[i], up |-> closures[i]]

\* one set of variables shared by all the calls
StoreShared(all, i, up) == [j \in DOMAIN all |-> up]

\* the closure variables are those of the call that handles file i
StoreClosure(all, i, up) == [all EXCEPT ![i] = up]

Store(i, c) ==
    /\ fileItems' = [fileItems EXCEPT ![i] = c.fi]
    /\ closures' = StoreClosure(closures, i, c.up)

Uploading == {i \in DOMAIN files : xhrs[i].kind # "none"}

Live(i) == i \in Uploading /\ xhrs[i].ended = "" /\ xhrs[i].readyState < 4

(***************************************************************************)
(* Actions.                                                                *)
(***************************************************************************)

\* uploadFiles(files) up to the await: one file item per file, one upload
\* call per supported file
UploadFiles(batch) ==
    /\ files = << >>
    /\ files' = batch
    /\ fileItems' = [i \in DOMAIN batch |->
                        IF Route(batch[i]) = "none"
                        THEN [NewFileItem EXCEPT
                                 !.statusText = "Unsupported file type",
                                 !.classes = {"file-error"}]
                        ELSE NewFileItem]
    /\ closures' = [i \in DOMAIN batch |-> NewClosure]
    /\ xhrs' = [i \in DOMAIN batch |-> NewXhr(Route(batch[i]))]
    /\ uploadPromises' =
          SelectSeq([i \in DOMAIN batch |-> i],
                    LAMBDA i : Route(batch[i]) # "none")
    /\ UNCHANGED << resultsProcessed, notifications, menu, linesLeft, splitsLeft,
                    transfersLeft >>
    /\ UNCHANGED pageVars

\* a progress event of xhr.upload
UploadProgress(i, lengthComputable, loaded) ==
    /\ Live(i)
    /\ xhrs[i].readyState = 1
    /\ loaded > xhrs[i].loaded
    /\ transfersLeft > 0
    /\ transfersLeft' = transfersLeft - 1
    /\ xhrs' = [xhrs EXCEPT ![i].loaded = loaded]
    /\ Store(i, OnUploadProgress(Cell(i), lengthComputable, loaded, UploadTotal))
    /\ UNCHANGED << files, uploadPromises, resultsProcessed, notifications,
                    menu, linesLeft, splitsLeft >>
    /\ UNCHANGED pageVars

\* the response headers arrive: readystatechange with readyState 2
HeadersReceived(i) ==
    /\ Live(i)
    /\ xhrs[i].readyState = 1
    /\ xhrs' = [xhrs EXCEPT ![i].readyState = 2]
    /\ Store(i, OnReadyStateChange(xhrs[i].kind, Cell(i), 2, ""))
    /\ UNCHANGED << files, uploadPromises, resultsProcessed, notifications,
                    menu, linesLeft, splitsLeft,
                    transfersLeft >>
    /\ UNCHANGED pageVars

\* a whole line reaches the browser; the listener has not run yet
ArriveLine(i, payload) ==
    /\ Live(i)
    /\ xhrs[i].readyState \in {2, 3}
    /\ xhrs[i].tail = ""
    /\ linesLeft > 0
    /\ linesLeft' = linesLeft - 1
    /\ xhrs' = [xhrs EXCEPT
                  ![i].responseText = @ \o "data: " \o payload \o "\n",
                  ![i].sent = Append(@, payload),
                  ![i].wellFormed = IF JSONParse(payload).ok
                                    THEN Append(@, payload) ELSE @]
    /\ UNCHANGED << files, fileItems, closures, uploadPromises,
                    resultsProcessed, notifications, menu, splitsLeft,
                    transfersLeft >>
    /\ UNCHANGED pageVars

\* the first k characters of a line reach the browser, the rest later
ArrivePiece(i, payload, k) ==
    /\ Live(i)
    /\ xhrs[i].readyState \in {2, 3}
    /\ xhrs[i].tail = ""
    /\ linesLeft > 0
    /\ splitsLeft > 0
    /\ linesLeft' = linesLeft - 1
    /\ splitsLeft' = splitsLeft - 1
    /\ LET line == "data: " \o payload \o "\n" IN
       /\ k \in 1..(Len(line) - 1)
       /\ xhrs' = [xhrs EXCEPT
                     ![i].responseText = @ \o SubSeq(line, 1, k),
                     ![i].tail = Substring(line, k),
                     ![i].sent = Append(@, payload),
                     ![i].wellFormed = IF JSONParse(payload).ok
                                       THEN Append(@, payload) ELSE @,
                     ![i].split = TRUE,
                     ![i].cutLine = Len(xhrs[i].sent) + 1,
                     ![i].cutInside = k < Len(line) - 1]
    /\ UNCHANGED << files, fileItems, closures, uploadPromises,
                    resultsProcessed, notifications, menu,
                    transfersLeft >>
    /\ UNCHANGED pageVars

\* the rest of a line that arrived in two pieces
ArriveTail(i) ==
    /\ Live(i)
    /\ xhrs[i].tail # ""
    /\ Len(closures[i].buffer) = Len(xhrs[i].responseText)
    /\ xhrs' = [xhrs EXCEPT ![i].responseText = @ \o xhrs[i].tail,
                            ![i].tail = ""]
    /\ UNCHANGED << files, fileItems, closures, uploadPromises,
                    resultsProcessed, notifications, menu, linesLeft, splitsLeft,
                    transfersLeft >>
    /\ UNCHANGED pageVars

\* readystatechange with readyState 3: the listener sees all that arrived
Deliver(i) ==
    /\ Live(i)
    /\ xhrs[i].readyState \in {2, 3}
    /\ Len(xhrs[i].responseText) > Len(closures[i].buffer)
    /\ xhrs' = [xhrs EXCEPT ![i].readyState = 3]
    /\ Store(i, OnReadyStateChange(xhrs[i].kind, Cell(i), 3, xhrs[i].responseText))
    /\ UNCHANGED << files, uploadPromises, resultsProcessed, notifications,
                    menu, linesLeft, splitsLeft,
                    transfersLeft >>
    /\ UNCHANGED pageVars

\* end of body: readystatechange with readyState 4
Done(i) ==
    /\ Live(i)
    /\ xhrs[i].readyState \in {2, 3}
    /\ xhrs[i].tail = ""
    /\ xhrs' = [xhrs EXCEPT ![i].readyState = 4]
    /\ Store(i, OnReadyStateChange(xhrs[i].kind, Cell(i), 4, xhrs[i].responseText))
    /\ UNCHANGED << files, uploadPromises, resultsProcessed, notifications,
                    menu, linesLeft, splitsLeft,
                    transfersLeft >>
    /\ UNCHANGED pageVars

\* the load event that follows the end of body
Load(i, status, statusLine) ==
    /\ i \in Uploading
    /\ xhrs[i].readyState = 4
    /\ xhrs[i].ended = ""
    /\ xhrs' = [xhrs EXCEPT ![i].ended = "load", ![i].status = status]
    /\ Store(i, OnLoad(Cell(i), status, statusLine))
    /\ UNCHANGED << files, uploadPromises, resultsProcessed, notifications,
                    menu, linesLeft, splitsLeft,
                    transfersLeft >>
    /\ UNCHANGED pageVars

\* a network error or an abort: the response becomes a network error
\* (responseText is empty), readystatechange fires with readyState 4, then
\* the error or abort event
TransportFail(i, how) ==
    /\ Live(i)
    /\ how \in {"error", "abort"}
    /\ xhrs' = [xhrs EXCEPT ![i].readyState = 4, ![i].responseText = "",
                            ![i].tail = "", ![i].ended = how]
    /\ LET c == OnReadyStateChange(xhrs[i].kind, Cell(i), 4, "")
       IN  Store(i, IF how = "error" THEN OnError(c) ELSE OnAbort(c))
    /\ UNCHANGED << files, uploadPromises, resultsProcessed, notifications,
                    menu, linesLeft, splitsLeft,
                    transfersLeft >>
    /\ UNCHANGED pageVars

\* results.forEach after await Promise.allSettled(uploadPromises):
\* results[index] is the outcome of uploadPromises[index], and it is
\* written to fileItems[index]
ResultItem(item, promise) ==
    IF promise.state = "fulfilled"
    THEN [item EXCEPT !.statusText = "Uploaded successfully",
                      !.classes = @ \cup {"file-success"}]
    ELSE [item EXCEPT !.statusText = "Upload failed: " \o promise.reason,
                      !.classes = @ \cup {"file-error"}]

ResultNotification(file, promise) ==
    IF promise.state = "fulfilled"
    THEN [type |-> "success", name |-> file.name, reason |-> ""]
    ELSE [type |-> "error", name |-> file.name, reason |-> promise.reason]

ProcessResults ==
    /\ files # << >>
    /\ ~resultsProcessed
    /\ \A k \in DOMAIN uploadPromises :
          closures[uploadPromises[k]].promise.state # "pending"
    /\ resultsProcessed' = TRUE
    /\ fileItems' = [index \in DOMAIN fileItems |->
                        IF index \in DOMAIN uploadPromises
                        THEN ResultItem(fileItems[index],
                                        closures[uploadPromises[index]].promise)
                        ELSE fileItems[index]]
    /\ notifications' = [index \in DOMAIN uploadPromises |->
                            ResultNotification(files[index],
                                closures[uploadPromises[index]].promise)]
    /\ UNCHANGED << files, closures, xhrs, uploadPromises, menu, linesLeft,
                    splitsLeft,
                    transfersLeft >>
    /\ UNCHANGED pageVars

Next ==
    \/ \E batch \in Batches : UploadFiles(batch)
    \/ \E i \in DOMAIN files, lengthComputable \in BOOLEAN, loaded \in 1..UploadTotal :
          UploadProgress(i, lengthComputable, loaded)
    \/ \E i \in DOMAIN files : HeadersReceived(i)
    \/ \E i \in DOMAIN files, payload \in MenuLines(menu) : ArriveLine(i, payload)
    \/ \E i \in DOMAIN files, payload \in MenuPieces(menu) :
          \E k \in 1..Len("data: " \o payload) : ArrivePiece(i, payload, k)
    \/ \E i \in DOMAIN files : ArriveTail(i)
    \/ \E i \in DOMAIN files : Deliver(i)
    \/ \E i \in DOMAIN files : Done(i)
    \/ \E i \in DOMAIN files, status \in {200, 500} :
          Load(i, status, IF status = 200 THEN "OK" ELSE "Internal Server Error")
    \/ \E i \in DOMAIN files, how \in {"error", "abort"} : TransportFail(i, how)
    \/ ProcessResults

Spec == Init /\ [][Next]_vars

(***************************************************************************)
(* The routing of uploadFiles on its own: batches over a catalog of files  *)
(* of every kind of type and name, whose requests carry no event.          *)
(***************************************************************************)

\* bound: the files of a batch
MaxBatch == 2

\* an image named like a PDF, a name that only holds '.pdf', a type that
\* only holds 'image/'
Shot == [name |-> "s.pdf", type |-> "image/jpeg"]
Draft == [name |-> "x.pdf.txt", type |-> "text/plain"]
Vector == [name |-> "v.svg", type |-> "text/image/svg"]

RouteCatalog == FileCatalog \cup {Shot, Draft, Vector}

RouteBatches == UNION {[1..n -> RouteCatalog] : n \in 1..MaxBatch}

RouteInit ==
    /\ files = << >>
    /\ fileItems = << >>
    /\ closures = << >>
    /\ xhrs = << >>
    /\ uploadPromises = << >>
    /\ resultsProcessed = FALSE
    /\ notifications = << >>
    /\ menu = "routing"
    /\ linesLeft = 0
    /\ splitsLeft = 0
    /\ transfersLeft = 0
    /\ PageInit

RouteNext ==
    \/ \E batch \in RouteBatches : UploadFiles(batch)
    \/ \E i \in DOMAIN files : HeadersReceived(i)
    \/ \E i \in DOMAIN files : Done(i)
    \/ \E i \in DOMAIN files, status \in {200, 500} :
          Load(i, status, IF status = 200 THEN "OK" ELSE "Internal Server Error")
    \/ \E i \in DOMAIN files, how \in {"error", "abort"} : TransportFail(i, how)
    \/ ProcessResults

RouteSpec == RouteInit /\ [][RouteNext]_vars

(***************************************************************************)
(* The progress bar over the whole range of percent: an image or a PDF     *)
(* upload with transfer progress and events of percent 0 and 100, caption  *)
(* and structured fragments, and a complete event.                         *)
(***************************************************************************)

Progress0 == "{\"type\":\"progress\",\"percent\":0}"
Progress100 == "{\"type\":\"progress\",\"percent\":100,\"stage\":\"Saving to database\"}"

RangeLines == {Progress0, Progress100, Caption1, StructuredHead, Complete}

RangeInit ==
    /\ files = << >>
    /\ fileItems = << >>
    /\ closures = << >>
    /\ xhrs = << >>
    /\ uploadPromises = << >>
    /\ resultsProcessed = FALSE
    /\ notifications = << >>
    /\ menu = "range"
    /\ linesLeft = MaxLines
    /\ splitsLeft = 0
    /\ transfersLeft = UploadTotal
    /\ PageInit

RangeNext ==
    \/ \E batch \in {<< Photo >>, << Paper >>} : UploadFiles(batch)
    \/ \E i \in DOMAIN files, lengthComputable \in BOOLEAN, loaded \in 1..UploadTotal :
          UploadProgress(i, lengthComputable, loaded)
    \/ \E i \in DOMAIN files : HeadersReceived(i)
    \/ \E i \in DOMAIN files, payload \in RangeLines : ArriveLine(i, payload)
    \/ \E i \in DOMAIN files : Deliver(i)

RangeSpec == RangeInit /\ [][RangeNext]_vars

(***************************************************************************)
(* The renderer of structured fragments on its own: a PDF upload whose     *)
(* stream holds one STRUCTURED_CHUNK line, the fragment being an object    *)
(* followed by any short text, and the delivery of that line.              *)
(***************************************************************************)

\* bound of the fragments: the length of the text after the object
MaxTail == 3

RenderAlphabet == {"{", "}", "[", "]", "\"", "a", "1"}

\* the texts of length 1..n over the alphabet
RECURSIVE RenderTexts(_)
RenderTexts(n) ==
    IF n = 0 THEN {}
    ELSE LET shorter == RenderTexts(n - 1)
         IN  RenderAlphabet \cup shorter
                \cup {t \o a : t \in shorter, a \in RenderAlphabet}

RenderObjects == {"{}", "{\"a\":1}", "{\"a\":[1,{}]}", "{\"a\":\"}\"}"}

\* a text as the body of a JSON string literal
RECURSIVE JsonQuote(_)
JsonQuote(text) ==
    IF text = "" THEN ""
    ELSE LET c == CharAt(text, 1)
         IN  (IF c \in {"\"", "\\"} THEN "\\" \o c ELSE c)
                \o JsonQuote(Substring(text, 1))

\* the progress event that carries a fragment
StructuredLine(fragment) ==
    "{\"type\":\"progress\",\"percent\":50,\"stage\":\"STRUCTURED_CHUNK:"
        \o JsonQuote(fragment) \o "\"}"

RenderInit ==
    \E object \in RenderObjects, tail \in RenderTexts(MaxTail) :
        LET payload == StructuredLine(object \o tail) IN
        /\ files = << Paper >>
        /\ fileItems = << NewFileItem >>
        /\ closures = << NewClosure >>
        /\ xhrs = << [NewXhr("pdf") EXCEPT
                         !.readyState = 2,
                         !.responseText = "data: " \o payload \o "\n",
                         !.sent = << payload >>,
                         !.wellFormed = IF JSONParse(payload).ok
                                        THEN << payload >> ELSE << >>] >>
        /\ uploadPromises = << 1 >>
        /\ resultsProcessed = FALSE
        /\ notifications = << >>
        /\ menu = "render"
        /\ linesLeft = 0
        /\ splitsLeft = 0
        /\ transfersLeft = 0
        /\ PageInit

RenderNext == \E i \in DOMAIN files : Deliver(i)

RenderSpec == RenderInit /\ [][RenderNext]_vars

(***************************************************************************)
(* The structuring of a long document: one PDF upload whose stream is made *)
(* of STRUCTURED_CHUNK fragments of up to a thousand characters, so that   *)
(* jsonBuffer passes maxExpectedLength.                                    *)
(***************************************************************************)

\* bound: the fragments one stream carries
MaxChunks == 3

\* n copies of the text s
RECURSIVE Repeat(_, _)
Repeat(s, n) ==
    IF n = 0 THEN ""
    ELSE LET half == Repeat(s, n \div 2)
         IN  half \o half \o (IF n % 2 = 1 THEN s ELSE "")

\* the opening of an array of numbers (1000 characters), more of it (999
\* characters) and one digit
BandFragments ==
    {"[" \o Repeat("1,", 499) \o "1", Repeat(",1", 499) \o ",", "1"}

\* the fragments hold no character that a JSON string escapes
BandLines ==
    {"{\"type\":\"progress\",\"percent\":50,\"stage\":\"STRUCTURED_CHUNK:"
        \o fragment \o "\"}" : fragment \in BandFragments}

BandInit ==
    /\ files = << Paper >>
    /\ fileItems = << NewFileItem >>
    /\ closures = << NewClosure >>
    /\ xhrs = << [NewXhr("pdf") EXCEPT !.readyState = 2] >>
    /\ uploadPromises = << 1 >>
    /\ resultsProcessed = FALSE
    /\ notifications = << >>
    /\ menu = "band"
    /\ linesLeft = MaxChunks
    /\ splitsLeft = 0
    /\ transfersLeft = 0
    /\ PageInit

BandNext ==
    \/ \E payload \in BandLines : ArriveLine(1, payload)
    \/ Deliver(1)

BandSpec == BandInit /\ [][BandNext]_vars

(***************************************************************************)
(* The search panel: SearchManager and the global it shares with the chat. *)
(***************************************************************************)

\* bound: the submits of the search form
MaxSearches == 2

uploadVars == << files, fileItems, closures, xhrs, uploadPromises,
                 resultsProcessed, notifications, menu, linesLeft, splitsLeft,
                 transfersLeft >>

\* no upload is going on and none can start
UploadIdle ==
    /\ files = << >>
    /\ fileItems = << >>
    /\ closures = << >>
    /\ xhrs = << >>
    /\ uploadPromises = << >>
    /\ resultsProcessed = FALSE
    /\ notifications = << >>
    /\ menu = "none"
    /\ linesLeft = 0
    /\ splitsLeft = 0
    /\ transfersLeft = 0

\* results of the search engine; a member the engine leaves out is the
\* empty text here (both are falsy), and no hit carries a similarity
DocHit ==
    [document_id |-> "d0c5a1b2-77", id |-> "", content |-> "tax form",
     caption |-> "", ocr_text |-> ""]
ImageHit ==
    [document_id |-> "", id |-> "1ma9e3f4-01", content |-> "",
     caption |-> "a cat", ocr_text |-> "MEOW"]
BareHit ==
    [document_id |-> "", id |-> "b4re", content |-> "", caption |-> "",
     ocr_text |-> ""]

\* what the text box may hold at a submit
SearchTexts == {"", " cat ", "dog"}

\* the ways a fetch of performSearch ends: a 2xx response whose body is a
\* list of results or null, another status, a failure of the network
SearchOutcomes ==
    {[kind |-> "ok", body |-> "list", data |-> << DocHit >>],
     [kind |-> "ok", body |-> "list", data |-> << ImageHit, BareHit >>],
     [kind |-> "ok", body |-> "list", data |-> << >>],
     [kind |-> "ok", body |-> "null", data |-> << >>],
     [kind |-> "status", body |-> "", data |-> << >>],
     [kind |-> "network", body |-> "", data |-> << >>]}

\* error.message in the catch of performSearch
SearchErrorMessage(outcome) ==
    IF outcome.kind = "status" THEN "HTTP 500: Internal Server Error"
    ELSE "Failed to fetch"

\* str.substring(0, n)
FirstChars(str, n) == SubSeq(str, 1, IF Len(str) < n THEN Len(str) ELSE n)

\* the text sendMessage makes of one result for the sources of the request
Source(result) ==
    IF result.document_id # ""
    THEN "Document " \o FirstChars(result.document_id, 8)
            \o "... (Score: N/A): "
            \o (IF result.content # "" THEN result.content
                ELSE "No content available")
    ELSE "Image " \o FirstChars(result.id, 8) \o "... (Score: N/A): Caption: "
            \o (IF result.caption # "" THEN result.caption
                ELSE "No caption available")
            \o (IF result.ocr_text # "" THEN " | OCR: " \o result.ocr_text
                ELSE "")

\* the sources sendMessage prepares from window.currentSearchResults
Sources(results) == [k \in DOMAIN results |-> Source(results[k])]

\* displaySearchResults(results), called for the search k
DisplaySearchResults(k, results) ==
    IF results = << >>
    THEN /\ searchResults' = [kind |-> "no-results", items |-> << >>,
                              message |-> "", by |-> k]
         /\ UNCHANGED currentSearchResults
    ELSE /\ currentSearchResults' = results
         /\ searchResults' = [kind |-> "results", items |-> results,
                              message |-> "", by |-> k]

\* the fetch call of one search
NewSearch(query) ==
    [query |-> query, state |-> "pending", outcome |-> "", data |-> << >>,
     finished |-> 0]

Finished == {k \in DOMAIN searches : searches[k].state # "pending"}

\* the submit listener of the search form: performSearch up to its await
PerformSearch(text) ==
    LET query == Trim(text) IN
    /\ Len(searches) + Len(pageNotifications) < MaxSearches
    /\ IF query = ""
       THEN /\ pageNotifications' =
                  Append(pageNotifications,
                         [message |-> "Please enter a search query",
                          type |-> "warning"])
            /\ UNCHANGED << searches, searchResults >>
       ELSE /\ searchResults' = [kind |-> "loading", items |-> << >>,
                                 message |-> "", by |-> Len(searches) + 1]
            /\ searches' = Append(searches, NewSearch(query))
            /\ UNCHANGED pageNotifications
    /\ UNCHANGED << currentSearchResults, chatHistory, chatMessages, sends,
                    checks, dependencyTree, uploadVars >>

\* the fetch of search k settles: performSearch from its await to its end
SearchSettles(k, outcome) ==
    /\ searches[k].state = "pending"
    /\ searches' = [searches EXCEPT
                      ![k].state = "done",
                      ![k].outcome = outcome.kind,
                      ![k].data = outcome.data,
                      ![k].finished = Cardinality(Finished) + 1]
    /\ IF outcome.kind = "ok"
       THEN /\ DisplaySearchResults(k, outcome.data)
            /\ UNCHANGED pageNotifications
       ELSE /\ searchResults' =
                  [kind |-> "error", items |-> << >>,
                   message |-> "Search failed: " \o SearchErrorMessage(outcome),
                   by |-> k]
            /\ pageNotifications' =
                  Append(pageNotifications,
                         [message |-> "Search failed: "
                                        \o SearchErrorMessage(outcome),
                          type |-> "error"])
            /\ UNCHANGED currentSearchResults
    /\ UNCHANGED << chatHistory, chatMessages, sends, checks, dependencyTree,
                    uploadVars >>

SearchInit == UploadIdle /\ PageInit

SearchNext ==
    \/ \E text \in SearchTexts : PerformSearch(text)
    \/ \E k \in DOMAIN searches, outcome \in SearchOutcomes :
          SearchSettles(k, outcome)

SearchSpec == SearchInit /\ [][SearchNext]_vars

(***************************************************************************)
(* The chat panel: ChatManager.sendMessage and its streamed response.      *)
(***************************************************************************)

\* bounds: the messages sent, the records all the streams carry together
MaxSends == 1
MaxRecords == 3

\* bounds of the runs of a session with earlier exchanges: the messages
\* sent, the clicks on the clear button
MaxExchanges == 2
MaxClears == 1

\* CONFIG.maxChatHistory
MaxChatHistory == 100

\* what the chat box may hold when the form is submitted
ChatTexts == {" hi ", "why"}

\* payloads of the 'data: ' records of a streamed response
ContentHel == "{\"content\":\"Hel\"}"
ContentLo == "{\"type\":\"chunk\",\"content\":\"lo\"}"
ContentEmpty == "{\"content\":\"\"}"
ChatComplete == "{\"type\":\"complete\"}"

ChatRecords == {ContentHel, ContentLo, ContentEmpty, ChatComplete}

\* what one reader.read() gives: one or two whole records
ChatChunks ==
    {<< r >> : r \in ChatRecords}
    \cup {<< r, q >> : r \in ChatRecords \ {ChatComplete}, q \in ChatRecords}

\* the text of a chunk: each record on a line of its own, a blank line
\* after it
RECURSIVE ChunkText(_)
ChunkText(records) ==
    IF records = << >> THEN ""
    ELSE "data: " \o Head(records) \o "\n\n" \o ChunkText(Tail(records))

\* the ways the fetch of sendMessage ends: a 2xx response that is an event
\* stream, a 2xx response with a JSON body (with or without a response
\* member) or a body that is not JSON, another status, a network failure
ChatOutcomes ==
    {[kind |-> "stream", response |-> ""],
     [kind |-> "json", response |-> "Hi there"],
     [kind |-> "json", response |-> ""],
     [kind |-> "unparsable", response |-> ""],
     [kind |-> "status", response |-> ""],
     [kind |-> "network", response |-> ""]}

\* one sendMessage call: the body of its request, the locals responseText
\* and data.response of the streaming branch, and the record of what the
\* stream carried (records) and how the call ended (ending)
NewSend(message, sources, history) ==
    [message |-> message, sources |-> sources, history |-> history,
     state |-> "pending", responseText |-> "", response |-> "",
     records |-> << >>, ending |-> "", cleared |-> FALSE]

\* the for loop body that overwrites responseText with each fragment
ChatRecordEventReplacing(send, line) ==
    IF StartsWith(line, "data: ")
    THEN LET parsed == JSONParse(Substring(line, 6))
             content == Lookup(parsed.members, "content")
             type == Lookup(parsed.members, "type")
         IN  IF ~parsed.ok THEN send
             ELSE IF Truthy(content)
             THEN [send EXCEPT !.responseText = TextOf(content)]
             ELSE IF type = StrVal("complete")
             THEN [send EXCEPT !.response = send.responseText]
             ELSE send
    ELSE send

\* the body of the for loop over the lines of a chunk; the branch for
\* type 'chunk' is behind a test it repeats and is never taken
ChatRecordEvent(send, line) ==
    IF StartsWith(line, "data: ")
    THEN LET parsed == JSONParse(Substring(line, 6))
             content == Lookup(parsed.members, "content")
             type == Lookup(parsed.members, "type")
         IN  IF ~parsed.ok THEN send
             ELSE IF Truthy(content)
             THEN [send EXCEPT !.responseText = @ \o TextOf(content)]
             ELSE IF type = StrVal("chunk") /\ Truthy(content)
             THEN [send EXCEPT !.responseText = @ \o TextOf(content)]
             ELSE IF type = StrVal("complete")
             THEN [send EXCEPT !.response = send.responseText]
             ELSE send
    ELSE send

RECURSIVE ChatRecordEvents(_, _)
ChatRecordEvents(send, lines) ==
    IF lines = << >> THEN send
    ELSE ChatRecordEvents(ChatRecordEvent(send, Head(lines)), Tail(lines))

\* addMessage(role, content), for the call k
AddMessage(messages, role, content, k) ==
    Append(messages, [role |-> role, content |-> content, of |-> k])

\* typingIndicator.remove()
RemoveIndicator(messages, k) ==
    SelectSeq(messages, LAMBDA msg : ~(msg.role = "typing" /\ msg.of = k))

\* the typing indicator of call k shows the text
UpdateIndicator(messages, k, text) ==
    [n \in DOMAIN messages |->
        IF messages[n].role = "typing" /\ messages[n].of = k
        THEN [messages[n] EXCEPT !.content = text]
        ELSE messages[n]]

\* the two pushes and a slice that keeps the oldest entries
PushHistoryKeepingOldest(history, message, responseText) ==
    LET pushed == history \o << [role |-> "user", content |-> message],
                                [role |-> "assistant", content |-> responseText] >>
    IN  IF Len(pushed) > MaxChatHistory
        THEN SubSeq(pushed, 1, MaxChatHistory)
        ELSE pushed

\* this.chatHistory after the two pushes and the slice
PushHistory(history, message, responseText) ==
    LET pushed == history \o << [role |-> "user", content |-> message],
                                [role |-> "assistant", content |-> responseText] >>
    IN  IF Len(pushed) > MaxChatHistory
        THEN SubSeq(pushed, Len(pushed) - MaxChatHistory + 1, Len(pushed))
        ELSE pushed

\* sendMessage after its if / else on the content type: data.response is
\* response
FinishSend(k, send, response, ending) ==
    LET responseText == IF response # "" THEN response
                        ELSE "No response received"
    IN  /\ chatMessages' = AddMessage(RemoveIndicator(chatMessages, k),
                                      "assistant", responseText, k)
        /\ chatHistory' = PushHistory(chatHistory, send.message, responseText)
        /\ sends' = [sends EXCEPT ![k] = [send EXCEPT !.state = "done",
                                                      !.ending = ending]]
        /\ UNCHANGED pageNotifications

\* a catch that records the message that was not answered
FailSendKeepingMessage(k, message) ==
    /\ chatMessages' = AddMessage(RemoveIndicator(chatMessages, k), "error",
                                  "Failed to get response: " \o message, k)
    /\ pageNotifications' =
          Append(pageNotifications,
                 [message |-> "Chat failed: " \o message, type |-> "error"])
    /\ sends' = [sends EXCEPT ![k].state = "failed", ![k].ending = "catch"]
    /\ chatHistory' = Append(chatHistory, [role |-> "user",
                                           content |-> sends[k].message])

\* the catch of sendMessage
FailSend(k, message) ==
    /\ chatMessages' = AddMessage(RemoveIndicator(chatMessages, k), "error",
                                  "Failed to get response: " \o message, k)
    /\ pageNotifications' =
          Append(pageNotifications,
                 [message |-> "Chat failed: " \o message, type |-> "error"])
    /\ sends' = [sends EXCEPT ![k].state = "failed", ![k].ending = "catch"]
    /\ UNCHANGED chatHistory

\* the messages a run sends: MaxExchanges in the runs of a session with
\* earlier exchanges, MaxSends otherwise
SendLimit == IF menu = "session" THEN MaxExchanges ELSE MaxSends

\* the submit of the chat form: sendMessage up to its await fetch (a
\* message that is empty after trim returns at once)
SendMessage(text) ==
    LET message == Trim(text)
        k == Len(sends) + 1
    IN  /\ message # ""
        /\ Len(sends) < SendLimit
        /\ chatMessages' = AddMessage(AddMessage(chatMessages, "user", message, k),
                                      "typing", "", k)
        /\ sends' = Append(sends, NewSend(message, Sources(currentSearchResults),
                                          chatHistory))
        /\ UNCHANGED << chatHistory, pageNotifications, searches, searchResults,
                        currentSearchResults, checks, dependencyTree,
                        uploadVars >>

\* the fetch of call k settles
ChatFetchSettles(k, outcome) ==
    /\ sends[k].state = "pending"
    /\ CASE outcome.kind = "stream" ->
              /\ sends' = [sends EXCEPT ![k].state = "streaming"]
              /\ UNCHANGED << chatMessages, chatHistory, pageNotifications >>
         [] outcome.kind = "json" ->
              FinishSend(k, sends[k], outcome.response, "json")
         [] outcome.kind = "unparsable" ->
              FinishSend(k, sends[k], "Failed to parse response", "json")
         [] outcome.kind = "status" ->
              FailSend(k, "HTTP 500: Internal Server Error")
         [] outcome.kind = "network" ->
              FailSend(k, "Failed to fetch")
    /\ UNCHANGED << searches, searchResults, currentSearchResults, checks,
                    dependencyTree, uploadVars >>

RECURSIVE RecordsRead(_)
RecordsRead(k) == IF k = 0 THEN 0 ELSE Len(sends[k].records) + RecordsRead(k - 1)

\* reader.read() of call k gives a chunk: one turn of the while loop
ChatRead(k, records) ==
    /\ sends[k].state = "streaming"
    /\ RecordsRead(Len(sends)) + Len(records) <= MaxRecords
    /\ LET send == ChatRecordEvents(sends[k], SplitLines(ChunkText(records)))
       IN  /\ sends' = [sends EXCEPT
                           ![k] = [send EXCEPT !.records = @ \o records]]
           /\ chatMessages' =
                 IF send.responseText # sends[k].responseText
                 THEN UpdateIndicator(chatMessages, k, send.responseText)
                 ELSE chatMessages
    /\ UNCHANGED << chatHistory, pageNotifications, searches, searchResults,
                    currentSearchResults, checks, dependencyTree, uploadVars >>

\* reader.read() of call k gives done: the loop ends
ChatReadDone(k) ==
    /\ sends[k].state = "streaming"
    /\ FinishSend(k, sends[k],
                  IF sends[k].response = "" /\ sends[k].responseText # ""
                  THEN sends[k].responseText ELSE sends[k].response,
                  "done")
    /\ UNCHANGED << searches, searchResults, currentSearchResults, checks,
                    dependencyTree, uploadVars >>

\* reader.read() of call k rejects: the catch around the loop
ChatReadFails(k) ==
    /\ sends[k].state = "streaming"
    /\ FinishSend(k, sends[k],
                  "Streaming failed, but response may be available", "error")
    /\ UNCHANGED << searches, searchResults, currentSearchResults, checks,
                    dependencyTree, uploadVars >>

\* the chat panel after a search that found one document
ChatInit ==
    /\ UploadIdle
    /\ searches = << >>
    /\ searchResults = BlankPane
    /\ currentSearchResults = << DocHit >>
    /\ pageNotifications = << >>
    /\ chatHistory = << >>
    /\ chatMessages = << >>
    /\ sends = << >>
    /\ checks = << >>
    /\ dependencyTree = << >>

ChatNext ==
    \/ \E text \in ChatTexts : SendMessage(text)
    \/ \E k \in DOMAIN sends, outcome \in ChatOutcomes :
          ChatFetchSettles(k, outcome)
    \/ \E k \in DOMAIN sends, records \in ChatChunks : ChatRead(k, records)
    \/ \E k \in DOMAIN sends : ChatReadDone(k)
    \/ \E k \in DOMAIN sends : ChatReadFails(k)

ChatSpec == ChatInit /\ [][ChatNext]_vars

(***************************************************************************)
(* The chat panel in a session that has had exchanges before: sends that   *)
(* overlap, the limit of the history, the clear button.                    *)
(***************************************************************************)

\* the numbers of exchanges a session may have had before the run
EarlierExchanges == {0, 49, 50}

\* the j-th of the earlier exchanges
EarlierQuestion(j) == "q" \o NatToString(j)
EarlierAnswer(j) == "a" \o NatToString(j)

\* this.chatHistory after n exchanges that were all answered
EarlierHistory(n) ==
    [m \in 1..(2 * n) |->
        IF m % 2 = 1
        THEN [role |-> "user", content |-> EarlierQuestion((m + 1) \div 2)]
        ELSE [role |-> "assistant", content |-> EarlierAnswer(m \div 2)]]

\* #chatMessages after the same exchanges (call 0 stands for them)
EarlierMessages(n) ==
    [m \in 1..(2 * n) |->
        [role |-> EarlierHistory(n)[m].role,
         content |-> EarlierHistory(n)[m].content, of |-> 0]]

\* the clicks on the clear button so far: one notification each
Clears ==
    Cardinality({n \in DOMAIN pageNotifications :
                    pageNotifications[n].message = "Chat history cleared"})

\* clearChat()
ClearChat ==
    /\ Clears < MaxClears
    /\ chatMessages' = << >>
    /\ chatHistory' = << >>
    /\ pageNotifications' =
          Append(pageNotifications,
                 [message |-> "Chat history cleared", type |-> "info"])
    /\ sends' = [k \in DOMAIN sends |-> [sends[k] EXCEPT !.cleared = TRUE]]
    /\ UNCHANGED << searches, searchResults, currentSearchResults, checks,
                    dependencyTree, uploadVars >>

SessionInit ==
    \E n \in EarlierExchanges :
        /\ files = << >>
        /\ fileItems = << >>
        /\ closures = << >>
        /\ xhrs = << >>
        /\ uploadPromises = << >>
        /\ resultsProcessed = FALSE
        /\ notifications = << >>
        /\ menu = "session"
        /\ linesLeft = 0
        /\ splitsLeft = 0
        /\ transfersLeft = 0
        /\ searches = << >>
        /\ searchResults = BlankPane
        /\ currentSearchResults = << >>
        /\ pageNotifications = << >>
        /\ chatHistory = EarlierHistory(n)
        /\ chatMessages = EarlierMessages(n)
        /\ sends = << >>
        /\ checks = << >>
        /\ dependencyTree = << >>

\* how the fetch of a message of the session may settle: a stream, a JSON
\* answer, a status that is not ok, a network error
SessionOutcomes ==
    {outcome \in ChatOutcomes :
        \/ outcome.kind \in {"stream", "status", "network"}
        \/ outcome.kind = "json" /\ outcome.response # ""}

SessionNext ==
    \/ \E text \in ChatTexts : SendMessage(text)
    \/ \E k \in DOMAIN sends, outcome \in SessionOutcomes :
          ChatFetchSettles(k, outcome)
    \/ \E k \in DOMAIN sends : ChatReadDone(k)
    \/ \E k \in DOMAIN sends : ChatReadFails(k)
    \/ ClearChat

SessionSpec == SessionInit /\ [][SessionNext]_vars

(***************************************************************************)
(* The status panel: StatusManager.checkAllServices and checkService.      *)
(***************************************************************************)

\* bounds: the rounds of checks, and the probes of a round that end
\* otherwise than with 200 and a JSON body {"status":"ok"}
MaxRounds == 1
MaxFaults == 1

\* the services array of checkAllServices: name and url
ServiceNames ==
    {"Web Interface", "Knowledge Base", "Search Engine", "LLM Agent",
     "File Ingestor", "Ollama", "EasyOCR", "PostgreSQL"}

ServiceUrl(name) ==
    CASE name = "Web Interface" -> "http://localhost:8000"
      [] name = "Knowledge Base" -> "http://localhost:8002"
      [] name = "Search Engine" -> "http://localhost:8001"
      [] name = "LLM Agent" -> "http://localhost:8003"
      [] name = "File Ingestor" -> "http://localhost:8004"
      [] name = "Ollama" -> "http://localhost:11434"
      [] name = "EasyOCR" -> "http://localhost:8005"
      [] name = "PostgreSQL" -> "http://localhost:5432"

\* the URL of the first fetch of checkService
HealthUrl(name) ==
    CASE name = "Ollama" -> ServiceUrl(name) \o "/api/tags"
      [] name = "PostgreSQL" -> ServiceUrl("Knowledge Base") \o "/health/"
      [] OTHER -> ServiceUrl(name) \o "/health/"

\* the URL of the second fetch for Ollama
AlternativeUrl(name) == ServiceUrl(name) \o "/api/version"

\* the usual answer of a service that is up
ProbeFine == [kind |-> "ok", status |-> 200, body |-> "{\"status\":\"ok\"}"]

\* the ways a fetch of checkService ends: a 2xx response whose body is an
\* object with or without status, plain text or the JSON value null,
\* another status, a network failure
ProbeOutcomes ==
    {ProbeFine,
     [kind |-> "ok", status |-> 200, body |-> "{}"],
     [kind |-> "ok", status |-> 200, body |-> "OK"],
     [kind |-> "ok", status |-> 200, body |-> "null"],
     [kind |-> "status", status |-> 404, body |-> ""],
     [kind |-> "status", status |-> 500, body |-> ""],
     [kind |-> "network", status |-> 0, body |-> ""]}

\* the value an async checkService call returns
Fulfilled(status, details) ==
    [settled |-> "fulfilled", status |-> status, details |-> details]

\* one checkService call: the fetch it waits for, the fetches it has made
\* with their outcomes, and its result once it has returned
NewCheck(name) ==
    [state |-> "pending", url |-> HealthUrl(name), probes |-> << >>,
     result |-> [settled |-> "pending", status |-> "", details |-> ""]]

\* the branch of checkService after a response that is ok, for a service
\* other than PostgreSQL: data is response.json(), or { status: 'OK' }
\* when that throws; data.status of null throws into the outer catch
HealthyDetails(body) ==
    IF body = "null"
    THEN Fulfilled("error", "Cannot read properties of null (reading 'status')")
    ELSE LET parsed == JSONParse(body)
             status == Lookup(parsed.members, "status")
         IN  IF ~parsed.ok THEN Fulfilled("healthy", "OK")
             ELSE IF Truthy(status) THEN Fulfilled("healthy", TextOf(status))
             ELSE Fulfilled("healthy", "healthy")

\* checkService(service) from the fetch that has just settled to its
\* return or its next fetch
CheckServiceStep(name, check, outcome) ==
    LET probed == [check EXCEPT
                      !.probes = Append(@, [url |-> check.url,
                                            outcome |-> outcome])]
        return(result) == [probed EXCEPT !.state = "done", !.result = result]
    IN  IF name = "PostgreSQL"
        THEN CASE outcome.kind = "ok" -> return(Fulfilled("healthy", "connected"))
               [] outcome.kind = "status" ->
                     return(Fulfilled("error", "database error"))
               [] outcome.kind = "network" ->
                     return(Fulfilled("error", "connection failed"))
        ELSE IF check.url = AlternativeUrl(name)
        THEN IF outcome.kind = "ok"
             THEN return(Fulfilled("healthy", "healthy"))
             ELSE return(Fulfilled("error", "HTTP 404"))
        ELSE CASE outcome.kind = "ok" -> return(HealthyDetails(outcome.body))
               [] outcome.kind = "status" ->
                     IF name = "Ollama" /\ outcome.status = 404
                     THEN [probed EXCEPT !.url = AlternativeUrl(name)]
                     ELSE return(Fulfilled("error",
                                           "HTTP " \o NatToString(outcome.status)))
               [] outcome.kind = "network" ->
                     return(Fulfilled("error", "Failed to fetch"))

\* renderTree for one node: the class of the item and the text under the
\* name; the result and the fetches behind it are kept with them
RenderTree(check) ==
    LET status == IF check.result.settled = "fulfilled"
                  THEN check.result
                  ELSE Fulfilled("error", "Check failed")
    IN  [statusClass |-> IF status.status = "healthy" THEN "status-healthy"
                         ELSE "status-error",
         details |-> status.details,
         result |-> check.result,
         probes |-> check.probes]

\* the probes of the running round that did not end with ProbeFine
Faults ==
    {<< name, n >> \in ServiceNames \X (1..2) :
        /\ name \in DOMAIN checks
        /\ n \in DOMAIN checks[name].probes
        /\ checks[name].probes[n].outcome # ProbeFine}

\* checkAllServices up to its await: the timer, the refresh button or the
\* constructor starts a round
CheckAllServices ==
    /\ DOMAIN checks = {}
    /\ Len(dependencyTree) < MaxRounds
    /\ checks' = [name \in ServiceNames |-> NewCheck(name)]
    /\ UNCHANGED << dependencyTree, searches, searchResults,
                    currentSearchResults, pageNotifications, chatHistory,
                    chatMessages, sends, uploadVars >>

\* a fetch of the check of one service settles
ProbeSettles(name, outcome) ==
    /\ name \in DOMAIN checks
    /\ checks[name].state = "pending"
    /\ outcome = ProbeFine \/ Cardinality(Faults) < MaxFaults
    /\ checks' = [checks EXCEPT ![name] = CheckServiceStep(name, @, outcome)]
    /\ UNCHANGED << dependencyTree, searches, searchResults,
                    currentSearchResults, pageNotifications, chatHistory,
                    chatMessages, sends, uploadVars >>

\* Promise.allSettled has all the results: updateDependencyTree
UpdateDependencyTree ==
    /\ DOMAIN checks # {}
    /\ \A name \in DOMAIN checks : checks[name].state = "done"
    /\ dependencyTree' =
          Append(dependencyTree,
                 [name \in ServiceNames |-> RenderTree(checks[name])])
    /\ checks' = << >>
    /\ UNCHANGED << searches, searchResults, currentSearchResults,
                    pageNotifications, chatHistory, chatMessages, sends,
                    uploadVars >>

StatusInit == UploadIdle /\ PageInit

StatusNext ==
    \/ CheckAllServices
    \/ \E name \in ServiceNames, outcome \in ProbeOutcomes :
          ProbeSettles(name, outcome)
    \/ UpdateDependencyTree

StatusSpec == StatusInit /\ [][StatusNext]_vars

(***************************************************************************)
(* Properties of the upload stream decoder.                                *)
(***************************************************************************)

IsPrefix(a, b) == Len(a) <= Len(b) /\ SubSeq(b, 1, Len(a)) = a

\* the payloads of a sequence of dispatched events
Payloads(dispatched) == [k \in DOMAIN dispatched |-> dispatched[k].payload]

\* all that was sent on request x has been handed to the listener
AllDelivered(x, up) ==
    /\ x.ended \notin {"error", "abort"}
    /\ x.tail = ""
    /\ Len(up.buffer) = Len(x.responseText)

\* C1: on a stream of well-formed 'data: <json>' lines that reach the
\* listener in any number of deliveries, none of them cut inside a line,
\* the events dispatched are the lines sent, one event per line in arrival
\* order: at every moment a prefix of the lines sent, and all of them once
\* every line has been delivered.
OneEventPerLine ==
    \A i \in Uploading :
        (~xhrs[i].split /\ xhrs[i].wellFormed = xhrs[i].sent)
        => /\ IsPrefix(Payloads(closures[i].dispatched), xhrs[i].sent)
           /\ AllDelivered(xhrs[i], closures[i])
                => Payloads(closures[i].dispatched) = xhrs[i].sent

\* two well-formed lines, delivered and both dispatched
OneEventPerLineWitness ==
    \E i \in Uploading :
        /\ ~xhrs[i].split
        /\ Len(xhrs[i].sent) >= 2
        /\ xhrs[i].wellFormed = xhrs[i].sent
        /\ xhrs[i].readyState = 3
        /\ Payloads(closures[i].dispatched) = xhrs[i].sent

\* the terminal events
IsTerminal(event) ==
    Lookup(event.data, "type") \in {StrVal("complete"), StrVal("error")}

\* the index of the first terminal event of a dispatched sequence, 0
\* without one
FirstTerminal(dispatched) ==
    LET terminal == {k \in DOMAIN dispatched : IsTerminal(dispatched[k])}
    IN  IF terminal = {} THEN 0 ELSE SetMin(terminal)

\* the settlement a terminal event asks for
OutcomeOf(event) ==
    LET detail == Lookup(event.data, "detail")
    IN  IF Lookup(event.data, "type") = StrVal("complete")
        THEN [state |-> "fulfilled", value |-> event.data, reason |-> ""]
        ELSE [state |-> "rejected", value |-> << >>,
              reason |-> IF detail.t = "str" /\ detail.s # "" THEN detail.s
                         ELSE "Upload failed"]

HonoursFirstTerminal(up) ==
    LET first == FirstTerminal(up.dispatched)
    IN  first # 0 => up.promise = OutcomeOf(up.dispatched[first])

\* C2: an upload operation is settled at most once, and by its first
\* terminal event: complete resolves the pending operation with the event,
\* error rejects it, and of two terminal events in one stream only the
\* first decides the outcome.
SettledOnceByFirstTerminal ==
    [][\A i \in DOMAIN files :
          /\ closures[i].promise.state # "pending"
                => closures'[i].promise = closures[i].promise
          /\ HonoursFirstTerminal(closures'[i])]_vars

\* error then complete on one stream: the operation stays rejected
SettledOnceWitness ==
    \E i \in Uploading :
        /\ Payloads(closures[i].dispatched) = << ErrorDetail, Complete >>
        /\ closures[i].promise.state = "rejected"
        /\ closures[i].promise.reason = "boom"

\* C3: when the transport of an upload has ended with a load event of
\* status 200 and no complete or error event was decoded, the operation
\* has been settled as a failure.
SettledWhenTransportEnds ==
    \A i \in Uploading :
        xhrs[i].ended = "load" => closures[i].promise.state # "pending"

\* C4: a 'data: ' line that is not valid JSON is skipped: the delivery of
\* such lines alone leaves the operation, the progress, the status text
\* and the accumulators as they were, and the well-formed lines around it
\* are all dispatched, in order.
MalformedLineSkipped ==
    [][\A i \in DOMAIN files :
          /\ (/\ ~xhrs'[i].split
              /\ Len(closures'[i].buffer) > Len(closures[i].buffer)
              /\ closures'[i].dispatched = closures[i].dispatched)
             => /\ fileItems'[i] = fileItems[i]
                /\ closures'[i] =
                      [closures[i] EXCEPT !.buffer = closures'[i].buffer]
          /\ ~xhrs'[i].split
             => /\ IsPrefix(Payloads(closures'[i].dispatched),
                            xhrs'[i].wellFormed)
                /\ AllDelivered(xhrs'[i], closures'[i])
                     => Payloads(closures'[i].dispatched) = xhrs'[i].wellFormed]_vars

\* a malformed line and then an error event: only the latter dispatched,
\* and the operation rejected by it
MalformedLineSkippedWitness ==
    \E i \in Uploading :
        /\ xhrs[i].sent = << Malformed, ErrorPlain >>
        /\ Payloads(closures[i].dispatched) = << ErrorPlain >>
        /\ closures[i].promise.state = "rejected"

ImageUploads == {i \in Uploading : xhrs[i].kind = "image"}

Last(seq) == seq[Len(seq)]

TypeIs(event, type) == Lookup(event.data, "type") = StrVal(type)

\* a progress event whose stage is absent or plain text or OCR text
HasPlainStage(event) ==
    LET stage == Lookup(event.data, "stage")
    IN  stage.t = "undef"
        \/ (stage.t = "str" /\ ~StartsWith(stage.s, "CAPTION_CHUNK:"))

\* the width 20 + 0.8 * percent
Weighted(percent) == W(20) + (4 * W(percent)) \div 5

\* C5: on the image path a progress event with percent p and a plain
\* stage sets the progress bar to 20 + 0.8 p percent; a complete event sets
\* it to 100 percent and resolves the operation with all the members of
\* the event; percent 50 and then complete show 60 and then 100 percent and
\* the result holds document_id.
ImageProgressAndComplete ==
    \A i \in ImageUploads :
        LET up == closures[i]
            first == FirstTerminal(up.dispatched)
        IN  /\ \A k \in DOMAIN up.widthLog :
                  /\ up.widthLog[k].by = "weight"
                        => up.widthLog[k].width = Weighted(up.widthLog[k].percent)
                  /\ up.widthLog[k].by = "complete"
                        => up.widthLog[k].width = W(100)
            /\ up.dispatched # << >>
                  => LET event == Last(up.dispatched)
                         percent == Lookup(event.data, "percent")
                     IN  /\ (/\ TypeIs(event, "progress")
                             /\ percent.t = "num"
                             /\ HasPlainStage(event))
                            => fileItems[i].width = Weighted(percent.n)
                         /\ TypeIs(event, "complete")
                            => fileItems[i].width = W(100)
            /\ (first # 0 /\ TypeIs(up.dispatched[first], "complete"))
                  => /\ up.promise.state = "fulfilled"
                     /\ up.promise.value = up.dispatched[first].data
                     /\ Lookup(up.promise.value, "document_id")
                           = Lookup(up.dispatched[first].data, "document_id")
            /\ Payloads(up.dispatched) = << Progress50, Complete >>
                  => /\ [k \in DOMAIN up.widthLog |-> up.widthLog[k].width]
                           = << W(60), W(100) >>
                     /\ Lookup(up.promise.value, "document_id") = StrVal("abc123")

\* percent 50 and then complete on an image upload
ImageProgressAndCompleteWitness ==
    \E i \in ImageUploads :
        /\ Payloads(closures[i].dispatched) = << Progress50, Complete >>
        /\ fileItems[i].width = W(100)
        /\ closures[i].promise.state = "fulfilled"

\* the entries of the width log that the weighting 20 + 0.8 p wrote
WeightEntries(widthLog) == SelectSeq(widthLog, LAMBDA e : e.by = "weight")

Words(text) ==
    Cardinality({i \in Inked(text) : i = 1 \/ (i - 1) \notin Inked(text)})

\* C7: the caption sub-progress estimate never exceeds 1, and it is 1
\* whenever the accumulated caption text holds 30 words or more.
CaptionEstimateSaturates ==
    \A i \in ImageUploads :
        LET estimates == closures[i].estimates
        IN  /\ \A k \in DOMAIN estimates :
                  estimates[k].value.n <= estimates[k].value.d
            /\ (estimates # << >> /\ Words(closures[i].captionBuffer) >= 30)
                  => Last(estimates).value.n = Last(estimates).value.d

\* a caption of 30 words, the estimate 1 and the bar at 68 percent
CaptionEstimateSaturatesWitness ==
    \E i \in ImageUploads :
        /\ Words(closures[i].captionBuffer) >= 30
        /\ closures[i].estimates # << >>
        /\ Last(closures[i].estimates).value.n = Last(closures[i].estimates).value.d
        /\ fileItems[i].width = W(68)

PdfUploads == {i \in Uploading : xhrs[i].kind = "pdf"}

\* the fragment of a STRUCTURED_CHUNK progress event
IsStructuredChunk(event) ==
    /\ TypeIs(event, "progress")
    /\ Lookup(event.data, "stage").t = "str"
    /\ StartsWith(Lookup(event.data, "stage").s, "STRUCTURED_CHUNK:")

FragmentOf(event) ==
    Substring(Lookup(event.data, "stage").s, Len("STRUCTURED_CHUNK:"))

\* the lengths n such that the first n characters of the fragment are one
\* complete JSON object and more text follows
ObjectEnds(fragment) ==
    {n \in 1..(Len(fragment) - 1) :
        /\ CharAt(fragment, 1) = "{"
        /\ CharAt(fragment, n) = "}"
        /\ JSONParse(SubSeq(fragment, 1, n)).ok}

\* partial text: not blank, the beginning of one JSON value, and not an
\* object or array already closed
IsPartial(text) ==
    LET st == JsonRange(text, JsonStart, 1, Len(text))
    IN  /\ Inked(text) # {}
        /\ st.mode # "err"
        /\ ~(/\ st.mode = "post"
             /\ st.stack = ""
             /\ CharAt(Trim(text), 1) \in {"{", "["})

\* the character at index i lies inside a string literal
InString(text, i) ==
    Cardinality({j \in 1..(i - 1) :
                    /\ CharAt(text, j) = "\""
                    /\ ~(j > 1 /\ Escaping(text, j - 1))}) % 2 = 1

NoBraceInString(text) ==
    \A i \in 1..Len(text) :
        CharAt(text, i) \in {"{", "}", "[", "]"} => ~InString(text, i)

\* the pane shows the object pretty-printed and then the marker
ShowsObjectAndMarker(i, object) ==
    fileItems[i].streamingJson
        = << JSONStringifyPretty(object) \o StreamingMarker >>

\* C8 as claimed: a fragment that is one complete JSON object followed by
\* partial text is shown as the object pretty-printed, followed by the
\* streaming marker, for every such partial text.
ObjectPrefixRendered ==
    \A i \in PdfUploads :
        (closures[i].dispatched # << >>
            /\ IsStructuredChunk(Last(closures[i].dispatched)))
        => LET fragment == FragmentOf(Last(closures[i].dispatched))
           IN  \A n \in ObjectEnds(fragment) :
                   IsPartial(Substring(fragment, n))
                   => ShowsObjectAndMarker(i, SubSeq(fragment, 1, n))

\* C8 as amended: a fragment that is one complete JSON object followed by
\* partial text, with no brace or bracket inside a string literal of
\* either, is shown as the object pretty-printed, followed by the
\* streaming marker.
ObjectPrefixRenderedUnquoted ==
    \A i \in PdfUploads :
        (closures[i].dispatched # << >>
            /\ IsStructuredChunk(Last(closures[i].dispatched)))
        => LET fragment == FragmentOf(Last(closures[i].dispatched))
           IN  \A n \in ObjectEnds(fragment) :
                   (IsPartial(Substring(fragment, n)) /\ NoBraceInString(fragment))
                   => ShowsObjectAndMarker(i, SubSeq(fragment, 1, n))

\* the object {"a":[1,{}]} followed by the opening of an array in an
\* object, shown pretty-printed with the marker
ObjectPrefixRenderedWitness ==
    \E i \in PdfUploads :
        /\ closures[i].dispatched # << >>
        /\ IsStructuredChunk(Last(closures[i].dispatched))
        /\ FragmentOf(Last(closures[i].dispatched)) = "{\"a\":[1,{}]}{\"a"
        /\ IsPartial("{\"a") /\ NoBraceInString("{\"a\":[1,{}]}{\"a")
        /\ fileItems[i].streamingJson
              = << "{\n  \"a\": [\n    1,\n    {}\n  ]\n}" \o StreamingMarker >>

TransportReasons ==
    {"Network error", "Upload cancelled", "HTTP 500: Internal Server Error"}

\* C9: an upload that failed in transport (network error, status other
\* than 200, abort) before any terminal event is rejected with that
\* reason, and once the results of the batch are processed the item of
\* that file shows 'Upload failed: <reason>' and carries file-error.
TransportFailureShown ==
    \A i \in Uploading :
        (/\ \/ xhrs[i].ended \in {"error", "abort"}
            \/ (xhrs[i].ended = "load" /\ xhrs[i].status # 200)
         /\ FirstTerminal(closures[i].dispatched) = 0)
        => /\ closures[i].promise.state = "rejected"
           /\ closures[i].promise.reason \in TransportReasons
           /\ resultsProcessed
                => /\ fileItems[i].statusText
                         = "Upload failed: " \o closures[i].promise.reason
                   /\ "file-error" \in fileItems[i].classes

\* what the variables of an upload are after its response text so far,
\* received alone and in one delivery
Alone(x, up) ==
    OnReadyStateChange(x.kind, [fi |-> NewFileItem, up |-> NewClosure],
                       3, up.buffer).up

\* the upload has the seen offset, the accumulators, the dispatched
\* events and the outcome of the same stream received alone
AsIfAlone(x, up) ==
    (~x.split /\ x.ended \notin {"error", "abort"})
    => LET alone == Alone(x, up) IN
       /\ IsPrefix(up.buffer, x.responseText)
       /\ up.dispatched = alone.dispatched
       /\ up.captionBuffer = alone.captionBuffer
       /\ up.jsonBuffer = alone.jsonBuffer
       /\ IF alone.promise.state # "pending" THEN up.promise = alone.promise
          ELSE up.promise.state = "pending"
               \/ (x.ended = "load" /\ up.promise.reason \in TransportReasons)

\* C10: with the callbacks of several uploads interleaved in any order, a
\* step that changes the variables of one upload leaves the request and
\* the variables of every other upload alone, and each upload has the seen
\* offset, the accumulators, the dispatched events and the outcome that
\* its own stream gives when received alone.
UploadsIsolated ==
    [][\A i \in DOMAIN files :
          closures'[i] # closures[i]
          => /\ \A j \in DOMAIN files \ {i} :
                    closures'[j] = closures[j] /\ xhrs'[j] = xhrs[j]
             /\ AsIfAlone(xhrs'[i], closures'[i])]_vars

\* two uploads at once, both with events dispatched, one rejected by its
\* stream and one resolved
UploadsIsolatedWitness ==
    /\ Cardinality(Uploading) = 2
    /\ \E i, j \in Uploading :
          /\ closures[i].dispatched # << >>
          /\ closures[j].dispatched # << >>
          /\ closures[i].promise.state = "rejected"
          /\ closures[j].promise.state = "fulfilled"

(***************************************************************************)
(* The status panel with rounds that overlap: the timer or the refresh     *)
(* button calls checkAllServices while an earlier call still waits for its *)
(* fetches.  Here checks holds one entry per call: its statusPromises, and *)
(* the place in dependencyTree of the tree it rendered (0 before).  The    *)
(* services of a call answer in the order of the services array, with      *)
(* ProbeFine or a network failure.                                         *)
(***************************************************************************)

\* bound: the calls of checkAllServices in a run
MaxOverlap == 2

\* the services array of checkAllServices, in its order
ServiceOrder ==
    << "Web Interface", "Knowledge Base", "Search Engine", "LLM Agent",
       "File Ingestor", "Ollama", "EasyOCR", "PostgreSQL" >>

\* the probes of all the calls that did not end with ProbeFine
OverlappingFaults ==
    {<< r, name >> \in (DOMAIN checks) \X ServiceNames :
        /\ checks[r].statusPromises[name].probes # << >>
        /\ checks[r].statusPromises[name].probes[1].outcome # ProbeFine}

\* the first service of call r, in the order of the array, whose fetch
\* has not settled; 0 when all have
NextPending(r) ==
    LET pending == {n \in DOMAIN ServiceOrder :
                       checks[r].statusPromises[ServiceOrder[n]].state = "pending"}
    IN  IF pending = {} THEN 0 ELSE SetMin(pending)

\* checkAllServices up to its await, whatever the earlier calls are doing
OverlappingCheckAllServices ==
    /\ Len(checks) < MaxOverlap
    /\ checks' = Append(checks,
                        [statusPromises |-> [name \in ServiceNames |-> NewCheck(name)],
                         rendered |-> 0])
    /\ UNCHANGED << dependencyTree, searches, searchResults,
                    currentSearchResults, pageNotifications, chatHistory,
                    chatMessages, sends, uploadVars >>

\* the next fetch of call r settles
OverlappingProbeSettles(r, outcome) ==
    /\ NextPending(r) # 0
    /\ outcome = ProbeFine \/ Cardinality(OverlappingFaults) < MaxFaults
    /\ LET name == ServiceOrder[NextPending(r)] IN
       checks' = [checks EXCEPT ![r].statusPromises[name] =
                                   CheckServiceStep(name, @, outcome)]
    /\ UNCHANGED << dependencyTree, searches, searchResults,
                    currentSearchResults, pageNotifications, chatHistory,
                    chatMessages, sends, uploadVars >>

\* Promise.allSettled of call r has all the results: updateDependencyTree
\* replaces the tree shown
OverlappingUpdateDependencyTree(r) ==
    /\ NextPending(r) = 0
    /\ checks[r].rendered = 0
    /\ dependencyTree' =
          Append(dependencyTree,
                 [name \in ServiceNames |->
                     RenderTree(checks[r].statusPromises[name])])
    /\ checks' = [checks EXCEPT ![r].rendered = Len(dependencyTree) + 1]
    /\ UNCHANGED << searches, searchResults, currentSearchResults,
                    pageNotifications, chatHistory, chatMessages, sends,
                    uploadVars >>

OverlapInit == UploadIdle /\ PageInit

OverlapNext ==
    \/ OverlappingCheckAllServices
    \/ \E r \in DOMAIN checks, outcome \in {ProbeFine, [kind |-> "network", status |-> 0, body |-> ""]} :
          OverlappingProbeSettles(r, outcome)
    \/ \E r \in DOMAIN checks : OverlappingUpdateDependencyTree(r)

OverlapSpec == OverlapInit /\ [][OverlapNext]_vars

(***************************************************************************)
(* Properties of the event handlers.                                       *)
(***************************************************************************)

\* the events dispatched by the step, those of closures' past closures
NewEvents(before, after) ==
    SubSeq(after.dispatched, Len(before.dispatched) + 1, Len(after.dispatched))

KnownTypes == {StrVal("progress"), StrVal("complete"), StrVal("error")}

\* C11: a delivery whose parsed events all have a type that is none of
\* progress, complete and error, or no type at all, leaves the operation
\* pending or settled as it was and the progress, the status text, the
\* results and the accumulators unchanged; the events after such an event
\* are dispatched and the first terminal one among them settles the
\* operation.
UnknownTypeIgnored ==
    [][\A i \in DOMAIN files :
          LET new == NewEvents(closures[i], closures'[i])
          IN  /\ (/\ new # << >>
                  /\ \A k \in DOMAIN new :
                        Lookup(new[k].data, "type") \notin KnownTypes)
                 => /\ fileItems'[i] = fileItems[i]
                    /\ closures'[i] =
                          [closures[i] EXCEPT
                              !.buffer = closures'[i].buffer,
                              !.dispatched = closures'[i].dispatched]
              /\ (~xhrs'[i].split /\ AllDelivered(xhrs'[i], closures'[i]))
                 => /\ Payloads(closures'[i].dispatched) = xhrs'[i].wellFormed
                    /\ HonoursFirstTerminal(closures'[i])]_vars

\* an event of unknown type and an event without type, each dispatched
\* with the upload still pending, and one followed by a complete event
\* that resolved the upload
UnknownTypeIgnoredWitness ==
    /\ menu = "ignored"
    /\ \E i \in Uploading :
          /\ Payloads(closures[i].dispatched) \in
                {<< Heartbeat, Complete >>, << Untyped, Complete >>}
          /\ closures[i].promise.state = "fulfilled"
          /\ closures[i].widthLog = << [by |-> "complete", percent |-> 100,
                                        width |-> W(100)] >>

\* the first terminal event of upload i is an error event
FirstIsError(i) ==
    LET first == FirstTerminal(closures[i].dispatched)
    IN  first # 0 /\ TypeIs(closures[i].dispatched[first], "error")

FirstDetail(i) ==
    Lookup(closures[i].dispatched[FirstTerminal(closures[i].dispatched)].data,
           "detail")

\* C12 as stated: an error event that is the first terminal event of its
\* stream rejects the operation with the detail of the event when it has
\* one and with 'Upload failed' when it has none.
ErrorRejectsWithDetail ==
    \A i \in Uploading :
        FirstIsError(i)
        => /\ closures[i].promise.state = "rejected"
           /\ closures[i].promise.reason =
                 IF FirstDetail(i).t = "undef" THEN "Upload failed"
                 ELSE TextOf(FirstDetail(i))

\* C12: an error event that is the first terminal event of its stream
\* rejects the operation with the detail of the event when it has one
\* that is not empty, and with 'Upload failed' when the detail is absent
\* or the empty string.
ErrorRejectsWithTruthyDetail ==
    \A i \in Uploading :
        FirstIsError(i)
        => /\ closures[i].promise.state = "rejected"
           /\ closures[i].promise.reason =
                 IF FirstDetail(i).t = "undef" \/ FirstDetail(i) = StrVal("")
                 THEN "Upload failed"
                 ELSE TextOf(FirstDetail(i))
           /\ closures[i].dispatched[FirstTerminal(closures[i].dispatched)].payload
                 = ErrorDetail
              => closures[i].promise.reason = "boom"

\* an error event with an empty detail first, a complete event after it
ErrorRejectsWithTruthyDetailWitness ==
    \E i \in Uploading :
        /\ xhrs[i].sent = << ErrorEmpty, Complete >>
        /\ FirstTerminal(closures[i].dispatched) = 1
        /\ Len(closures[i].dispatched) = 2
        /\ closures[i].promise.reason = "Upload failed"

\* C17: once the first terminal event of a stream has been processed, no
\* later event of that stream changes the file item: after an error event
\* a complete event does not set the bar to 100 percent, the status text
\* to 'Upload complete!' or the results, and after a complete event a
\* progress event moves neither the bar nor the status text.
TerminalEventFinal ==
    [][\A i \in DOMAIN files :
          (/\ FirstTerminal(closures[i].dispatched) # 0
           /\ NewEvents(closures[i], closures'[i]) # << >>)
          => fileItems'[i] = fileItems[i]]_vars

ChunkPrefixes == {"CAPTION_CHUNK:", "OCR_TEXT:", "STRUCTURED_CHUNK:"}

\* a progress event with a stage that begins with none of the prefixes
IsUnprefixedProgress(event) ==
    LET stage == Lookup(event.data, "stage")
    IN  /\ TypeIs(event, "progress")
        /\ stage.t = "str" /\ stage.s # ""
        /\ \A prefix \in ChunkPrefixes : ~StartsWith(stage.s, prefix)

\* the step shows the stage of its last event and leaves captionBuffer,
\* jsonBuffer and the streamed JSON pane alone
ShownAsStatus(i, new) ==
    /\ fileItems'[i].statusText = Lookup(Last(new).data, "stage").s
    /\ fileItems'[i].streamingJson = fileItems[i].streamingJson
    /\ closures'[i].captionBuffer = closures[i].captionBuffer
    /\ closures'[i].jsonBuffer = closures[i].jsonBuffer
    /\ closures'[i].estimates = closures[i].estimates

\* C18 as stated: on both paths a progress event whose stage begins with
\* none of CAPTION_CHUNK:, OCR_TEXT: and STRUCTURED_CHUNK: is plain status:
\* the status text becomes the stage verbatim and no accumulator changes.
UnprefixedStageIsStatus ==
    [][\A i \in Uploading :
          LET new == NewEvents(closures[i], closures'[i])
          IN  (/\ new # << >>
               /\ \A k \in DOMAIN new : IsUnprefixedProgress(new[k]))
              => ShownAsStatus(i, new)]_vars

\* C18: on the image path a progress event whose stage begins with none of
\* the three prefixes, and on the PDF path a progress event whose stage is
\* one of the nine status strings of the pipeline, is plain status: the
\* status text becomes the stage verbatim and no accumulator changes.
PlainStageIsStatus ==
    [][\A i \in Uploading :
          LET new == NewEvents(closures[i], closures'[i])
          IN  (/\ new # << >>
               /\ \A k \in DOMAIN new :
                     /\ IsUnprefixedProgress(new[k])
                     /\ xhrs[i].kind = "pdf"
                        => Lookup(new[k].data, "stage").s \in KnownPdfStages)
              => ShownAsStatus(i, new)]_vars

\* a PDF upload that shows 'Generating keywords' after a fragment-free
\* stream, next to an image upload that shows the stage 'Reading'
PlainStageIsStatusWitness ==
    \E i \in PdfUploads, j \in ImageUploads :
        /\ Payloads(closures[i].dispatched) = << Progress80 >>
        /\ fileItems[i].statusText = "Generating keywords"
        /\ closures[i].jsonBuffer = ""
        /\ Payloads(closures[j].dispatched) = << ProgressReading >>
        /\ fileItems[j].statusText = "Reading"

\* C19: on the PDF path, after each STRUCTURED_CHUNK fragment the pane
\* shows the rendering of the accumulated payload: the validity test, the
\* balance scan and the text shown are those of all the fragments
\* received so far, not of the last fragment.
PaneShowsAccumulated ==
    \A i \in PdfUploads :
        (closures[i].dispatched # << >>
            /\ IsStructuredChunk(Last(closures[i].dispatched)))
        => fileItems[i].streamingJson
              = << DisplayStreamingJsonChunk(closures[i].jsonBuffer,
                                             closures[i].jsonBuffer) >>

\* the last event of PDF upload i is a STRUCTURED_CHUNK fragment
AfterStructuredChunk(i) ==
    /\ closures[i].dispatched # << >>
    /\ IsStructuredChunk(Last(closures[i].dispatched))

\* C20 as stated: on the PDF path, after a STRUCTURED_CHUNK fragment the
\* bar shows min(characters accumulated / 2000, 1) mapped onto the band
\* from 50 to 100 percent: 50 + 50 * min(n / 2000, 1) percent, hence 100
\* percent from 2000 characters on.
JsonBandToHundred ==
    \A i \in PdfUploads :
        AfterStructuredChunk(i)
        => LET n == Len(closures[i].jsonBuffer)
           IN  /\ (fileItems[i].width - W(50)) * 2000
                     = (IF n < 2000 THEN n ELSE 2000) * W(50)
               /\ n >= 2000 => fileItems[i].width = W(100)

\* C20: on the PDF path, after a STRUCTURED_CHUNK fragment the bar shows
\* min(characters accumulated / 2000, 1) mapped onto the band from 50 to
\* 90 percent: 50 + 40 * min(n / 2000, 1) percent, hence 90 percent from
\* 2000 characters on.
JsonBandToNinety ==
    \A i \in PdfUploads :
        AfterStructuredChunk(i)
        => LET n == Len(closures[i].jsonBuffer)
           IN  /\ (fileItems[i].width - W(50)) * 2000
                     = (IF n < 2000 THEN n ELSE 2000) * W(40)
               /\ n >= 2000 => fileItems[i].width = W(90)

\* 2999 characters accumulated from three fragments, the bar at 90 percent
JsonBandToNinetyWitness ==
    \E i \in PdfUploads :
        /\ AfterStructuredChunk(i)
        /\ Len(closures[i].dispatched) = 3
        /\ Len(closures[i].jsonBuffer) = 2999
        /\ fileItems[i].width = W(90)

(***************************************************************************)
(* Properties of the search panel.                                         *)
(***************************************************************************)

\* the searches that completed successfully
Succeeded == {k \in Finished : searches[k].outcome = "ok"}

\* the one that completed last among the searches of S
LastFinished(S) == CHOOSE k \in S : \A j \in S : searches[j].finished <= searches[k].finished

\* C13: every search that completes successfully overwrites the shared
\* current search results with its own result list, so that after any
\* sequence of searches the value the chat takes its sources from is the
\* result list of the search that completed most recently.
LastSearchIsChatContext ==
    Succeeded # {}
    => /\ currentSearchResults = searches[LastFinished(Succeeded)].data
       /\ Sources(currentSearchResults)
             = Sources(searches[LastFinished(Succeeded)].data)

\* C14: at most one search request is in flight at any time, so the pane
\* and the shared value come from the query submitted last: the response
\* to an earlier query never overwrites that of a later one.
OneSearchInFlight ==
    /\ Cardinality(DOMAIN searches \ Finished) <= 1
    /\ searchResults.by \in {0, Len(searches)}
    /\ \A k \in Succeeded :
          (searches[k].data # << >> /\ currentSearchResults = searches[k].data)
          => \A j \in Succeeded : j > k => searches[j].data = searches[k].data

(***************************************************************************)
(* Properties of the chat panel.                                           *)
(***************************************************************************)

\* the content member of a record, the empty text without one
ContentOf(record) ==
    LET content == Lookup(JSONParse(record).members, "content")
    IN  IF content.t = "str" THEN content.s ELSE ""

\* the content fragments of the records, joined in their order
RECURSIVE Concatenation(_)
Concatenation(records) ==
    IF records = << >> THEN ""
    ELSE ContentOf(Head(records)) \o Concatenation(Tail(records))

\* a stream that was read to its end and is made of records with content
\* and one last record of type complete
IsFragmentStream(send) ==
    /\ send.ending = "done"
    /\ send.records # << >>
    /\ Last(send.records) = ChatComplete
    /\ \A n \in 1..(Len(send.records) - 1) : send.records[n] # ChatComplete

\* the assistant messages the call k added to the chat
AssistantMessages(k) ==
    SelectSeq(chatMessages, LAMBDA msg : msg.role = "assistant" /\ msg.of = k)

\* the assistant entries of the history whose user entry is that of call k
AnsweredWith(k, text) ==
    \E n \in 1..(Len(chatHistory) - 1) :
        /\ chatHistory[n] = [role |-> "user", content |-> sends[k].message]
        /\ chatHistory[n + 1] = [role |-> "assistant", content |-> text]

\* C15 as stated: for a streamed response made of records with content
\* fragments and ended by a complete record, the assistant message added
\* to the chat and to the history is the concatenation of the fragments
\* in order, one assistant message for the message sent.
AssistantIsConcatenation ==
    \A k \in DOMAIN sends :
        IsFragmentStream(sends[k])
        => /\ AssistantMessages(k)
                = << [role |-> "assistant",
                      content |-> Concatenation(sends[k].records), of |-> k] >>
           /\ AnsweredWith(k, Concatenation(sends[k].records))

\* C15: for a streamed response made of records with content fragments
\* that are not all empty, ended by a complete record, the assistant
\* message added to the chat and to the history is the concatenation of
\* the fragments in order; when every fragment is empty it is 'No
\* response received'; either way one assistant message is added for the
\* message sent.
AssistantIsConcatenationOrNotice ==
    \A k \in DOMAIN sends :
        IsFragmentStream(sends[k])
        => LET text == IF Concatenation(sends[k].records) # ""
                       THEN Concatenation(sends[k].records)
                       ELSE "No response received"
           IN  /\ AssistantMessages(k)
                     = << [role |-> "assistant", content |-> text, of |-> k] >>
               /\ AnsweredWith(k, text)
               /\ Len(SelectSeq(chatHistory,
                                LAMBDA entry : entry.role = "assistant"))
                     = Cardinality({j \in DOMAIN sends : sends[j].state = "done"})

\* the fragments Hel and lo and the complete record, read in two chunks
\* and answered with Hello
AssistantIsConcatenationWitness ==
    \E k \in DOMAIN sends :
        /\ sends[k].records = << ContentHel, ContentLo, ChatComplete >>
        /\ sends[k].ending = "done"
        /\ AssistantMessages(k)
              = << [role |-> "assistant", content |-> "Hello", of |-> k] >>
        /\ AnsweredWith(k, "Hello")

(***************************************************************************)
(* Properties of the status panel.                                         *)
(***************************************************************************)

\* the probe the status of a service rests on: the only fetch, or for
\* Ollama the fetch of /api/version when /api/tags was not found
DesignatedProbe(node) == Last(node.probes)

\* C16: in every round each service is shown healthy exactly when its
\* designated probe returned a 2xx response and in error otherwise; the
\* probe is GET <service>/health/, for Ollama /api/tags with /api/version
\* as fallback, for PostgreSQL the /health/ of the Knowledge Base; and no
\* check rejects.
HealthyIffProbeOk ==
    \A n \in DOMAIN dependencyTree, name \in ServiceNames :
        LET node == dependencyTree[n][name] IN
        /\ node.result.settled = "fulfilled"
        /\ node.result.status \in {"healthy", "error"}
        /\ node.statusClass = "status-healthy" <=> node.result.status = "healthy"
        /\ node.result.status = "healthy"
              <=> DesignatedProbe(node).outcome.kind = "ok"
        /\ node.probes[1].url =
              CASE name = "Ollama" -> "http://localhost:11434/api/tags"
                [] name = "PostgreSQL" -> "http://localhost:8002/health/"
                [] OTHER -> ServiceUrl(name) \o "/health/"
        /\ Len(node.probes) = 2
              => /\ name = "Ollama"
                 /\ node.probes[2].url = "http://localhost:11434/api/version"

(***************************************************************************)
(* Further properties of the upload handlers.                              *)
(***************************************************************************)

\* a progress event whose stage begins with the prefix
HasPrefix(event, prefix) ==
    /\ TypeIs(event, "progress")
    /\ Lookup(event.data, "stage").t = "str"
    /\ StartsWith(Lookup(event.data, "stage").s, prefix)

\* the last event of image upload i is a CAPTION_CHUNK fragment
AfterCaptionChunk(i) ==
    /\ closures[i].dispatched # << >>
    /\ HasPrefix(Last(closures[i].dispatched), "CAPTION_CHUNK:")

Without(seq, k) ==
    [j \in 1..(Len(seq) - 1) |-> IF j < k THEN seq[j] ELSE seq[j + 1]]

\* the listener has run on the first piece of the line cut in two, and the
\* cut fell inside the record 'data: <json>', not between it and its line
\* feed
CutInsideRecord(i) ==
    /\ xhrs[i].split
    /\ xhrs[i].cutInside
    /\ xhrs[i].wellFormed = xhrs[i].sent

\* C22: a 'data: ' record cut in two by a delivery, at any position inside
\* the record, is never dispatched, neither from its first piece nor from
\* the rest; the lines before and after it are dispatched as usual, in
\* order, and the cut line alone settles nothing.
SplitRecordDropped ==
    \A i \in Uploading :
        CutInsideRecord(i)
        => LET others == Without(xhrs[i].sent, xhrs[i].cutLine)
           IN  /\ IsPrefix(Payloads(closures[i].dispatched), others)
               /\ AllDelivered(xhrs[i], closures[i])
                     => Payloads(closures[i].dispatched) = others
               /\ (closures[i].dispatched = << >> /\ xhrs[i].ended = "")
                     => closures[i].promise = PendingPromise

\* a complete event cut inside its record was dropped, the whole line that
\* came after it was dispatched and resolved the upload
SplitRecordDroppedWitness ==
    \E i \in Uploading :
        /\ CutInsideRecord(i)
        /\ xhrs[i].cutLine = 1
        /\ xhrs[i].sent = << Complete, Complete >>
        /\ AllDelivered(xhrs[i], closures[i])
        /\ Len(closures[i].dispatched) = 1
        /\ closures[i].promise.state = "fulfilled"

\* the payload of a progress event on the channel of the prefix, "" for
\* any other event
ChannelPayload(event, prefix) ==
    IF HasPrefix(event, prefix)
    THEN Substring(Lookup(event.data, "stage").s, Len(prefix))
    ELSE ""

\* the payloads received on the channel of the prefix, joined in arrival
\* order
RECURSIVE ChannelText(_, _)
ChannelText(dispatched, prefix) ==
    IF dispatched = << >> THEN ""
    ELSE ChannelPayload(Head(dispatched), prefix)
            \o ChannelText(Tail(dispatched), prefix)

\* the progress events of a PDF upload are fragments of the three
\* channels only
OnlyPrefixed(dispatched) ==
    \A k \in DOMAIN dispatched :
        \/ ~TypeIs(dispatched[k], "progress")
        \/ \E prefix \in ChunkPrefixes : HasPrefix(dispatched[k], prefix)

\* the progress events of a PDF upload are STRUCTURED_CHUNK fragments or
\* have a stage that the PDF path shows as status
OnlyStructuredOrStatus(dispatched) ==
    \A k \in DOMAIN dispatched :
        \/ ~TypeIs(dispatched[k], "progress")
        \/ HasPrefix(dispatched[k], "STRUCTURED_CHUNK:")
        \/ ~Truthy(Lookup(dispatched[k].data, "stage"))
        \/ \E stage \in KnownPdfStages :
              Lookup(dispatched[k].data, "stage") = StrVal(stage)

\* C23 as stated: each of the three channels is accumulated: after any
\* sequence of prefixed progress events the caption text of an image
\* upload is the concatenation of the CAPTION_CHUNK payloads, the OCR text
\* it shows after an OCR_TEXT event is the concatenation of the OCR_TEXT
\* payloads, and the JSON text of a PDF upload is the concatenation of the
\* STRUCTURED_CHUNK payloads, each in arrival order.
EveryChannelAccumulated ==
    [][\A i \in Uploading :
          LET new == NewEvents(closures[i], closures'[i])
              all == closures'[i].dispatched
          IN  /\ xhrs[i].kind = "image"
                 => /\ closures'[i].captionBuffer
                          = ChannelText(all, "CAPTION_CHUNK:")
                    /\ (new # << >> /\ HasPrefix(Last(new), "OCR_TEXT:"))
                          => fileItems'[i].statusText
                               = "OCR Text: " \o ChannelText(all, "OCR_TEXT:")
              /\ (xhrs[i].kind = "pdf" /\ OnlyPrefixed(all))
                 => closures'[i].jsonBuffer
                       = ChannelText(all, "STRUCTURED_CHUNK:")]_vars

\* C23: the caption channel of an image upload and the structured channel
\* of a PDF upload are accumulated: the caption text is the concatenation
\* of the CAPTION_CHUNK payloads, and after any sequence of progress
\* events that are STRUCTURED_CHUNK fragments or status known to the PDF
\* path the JSON text is that of the STRUCTURED_CHUNK payloads, in arrival
\* order.  An OCR_TEXT payload is not accumulated: after an OCR_TEXT event
\* the image path shows the payload of that event alone.
OwnChannelAccumulated ==
    [][\A i \in Uploading :
          LET new == NewEvents(closures[i], closures'[i])
              all == closures'[i].dispatched
          IN  /\ xhrs[i].kind = "image"
                 => /\ closures'[i].captionBuffer
                          = ChannelText(all, "CAPTION_CHUNK:")
                    /\ (new # << >> /\ HasPrefix(Last(new), "OCR_TEXT:"))
                          => fileItems'[i].statusText
                               = "OCR Text: " \o ChannelPayload(Last(new), "OCR_TEXT:")
              /\ (xhrs[i].kind = "pdf" /\ OnlyStructuredOrStatus(all))
                 => closures'[i].jsonBuffer
                       = ChannelText(all, "STRUCTURED_CHUNK:")]_vars

\* two STRUCTURED_CHUNK fragments joined on the PDF path, and two
\* CAPTION_CHUNK fragments joined on the image path
OwnChannelAccumulatedWitness ==
    \/ \E i \in PdfUploads :
          /\ Payloads(closures[i].dispatched) = << StructuredHead, StructuredRest >>
          /\ closures[i].jsonBuffer = "{\"a\":1}"
    \/ \E i \in ImageUploads :
          /\ Payloads(closures[i].dispatched) = << Caption29, Caption1 >>
          /\ Words(closures[i].captionBuffer) = 30
          /\ closures[i].captionBuffer
                = ChannelText(closures[i].dispatched, "CAPTION_CHUNK:")

\* C24: once the results of a batch are processed every file item shows
\* the outcome of its own file: 'Uploaded successfully' when its upload
\* resolved, 'Upload failed: <its reason>' when it was rejected, and the
\* item of a file of unsupported type keeps 'Unsupported file type' and
\* is not marked file-success.
ItemShowsOwnOutcome ==
    resultsProcessed
    => \A i \in DOMAIN files :
          /\ (i \in Uploading /\ closures[i].promise.state = "fulfilled")
                => fileItems[i].statusText = "Uploaded successfully"
          /\ (i \in Uploading /\ closures[i].promise.state = "rejected")
                => fileItems[i].statusText
                      = "Upload failed: " \o closures[i].promise.reason
          /\ i \notin Uploading
                => /\ fileItems[i].statusText = "Unsupported file type"
                   /\ "file-success" \notin fileItems[i].classes

(***************************************************************************)
(* Properties of the chat history.                                         *)
(***************************************************************************)

\* the last n entries of seq, all of it when it has fewer
LastEntries(seq, n) ==
    IF Len(seq) > n THEN SubSeq(seq, Len(seq) - n + 1, Len(seq)) ELSE seq

\* the history is made of pairs: a user entry, then an assistant entry
IsPaired(history) ==
    /\ Len(history) % 2 = 0
    /\ \A n \in DOMAIN history :
          history[n].role = IF n % 2 = 1 THEN "user" ELSE "assistant"

\* the calls of sendMessage that the step answers
Answered == {k \in DOMAIN sends : sends[k].state # "done" /\ sends'[k].state = "done"}

\* C25: after any sequence of chat sends, answered or failed, overlapping
\* or not, the chat history holds at most CONFIG.maxChatHistory (100)
\* entries and is made of adjacent pairs, the user entry first; the step
\* that answers a call appends its message and the reply shown for it and
\* keeps the most recent 100 entries of the result, and no other step
\* changes the history but a clear.
HistoryBoundedAndPaired ==
    [][/\ Len(chatHistory') <= MaxChatHistory
       /\ IsPaired(chatHistory')
       /\ Answered = {} => chatHistory' \in {chatHistory, << >>}
       /\ \A k \in Answered :
                  /\ Last(chatMessages').role = "assistant"
                  /\ Last(chatMessages').of = k
                  /\ chatHistory'
                       = LastEntries(chatHistory
                                     \o << [role |-> "user",
                                            content |-> sends[k].message],
                                           [role |-> "assistant",
                                            content |-> Last(chatMessages').content] >>,
                                     100)]_vars

\* two messages sent one after the other before either was answered, in
\* a session of 50 earlier exchanges: both answered, the history holds
\* 100 entries and the two oldest exchanges are gone
HistoryBoundedAndPairedWitness ==
    /\ Len(sends) = 2
    /\ \A k \in DOMAIN sends : sends[k].state = "done" /\ ~sends[k].cleared
    /\ sends[2].history = EarlierHistory(50)
    /\ Len(chatHistory) = 100
    /\ chatHistory[1].content = EarlierQuestion(3)
    /\ chatHistory[100].role = "assistant"

\* C26: after clearChat the history holds only exchanges whose user
\* message was sent after the clear: the reply to a message that was in
\* flight when the history was cleared is not added to it afterwards.
OnlySentAfterClear ==
    Clears > 0
    => /\ Len(chatHistory)
            <= 2 * Cardinality({k \in DOMAIN sends : ~sends[k].cleared})
       /\ \A n \in DOMAIN chatHistory :
             chatHistory[n].role = "user"
             => \E k \in DOMAIN sends :
                   /\ ~sends[k].cleared
                   /\ sends[k].state = "done"
                   /\ sends[k].message = chatHistory[n].content

\* the messages of the role shown for call k
Shown(messages, role, k) ==
    {n \in DOMAIN messages : messages[n].role = role /\ messages[n].of = k}

\* the calls of sendMessage whose request fails in the step
Failed == {k \in DOMAIN sends : sends[k].state # "failed" /\ sends'[k].state = "failed"}

\* C27: when the request of a chat message fails, by a network error or a
\* status that is not ok, the failure leaves the chat history as it was
\* (as it was when the message was sent, if no other message and no clear
\* came in between), the typing indicator of the call is gone and one
\* error message is shown for it.
FailedSendLeavesHistory ==
    [][\A k \in Failed :
          /\ chatHistory' = chatHistory
          /\ (Len(sends) = 1 /\ Clears = 0) => chatHistory' = sends[k].history
          /\ Shown(chatMessages', "typing", k) = {}
          /\ Cardinality(Shown(chatMessages', "error", k)) = 1
          /\ Last(chatMessages').role = "error"
          /\ Len(chatMessages') = Len(chatMessages)
                - Cardinality(Shown(chatMessages, "typing", k)) + 1]_vars

\* after 49 exchanges a message failed: the history is that of the 49
\* exchanges, the last message shown is the one error message of the call
FailedSendLeavesHistoryWitness ==
    /\ Len(sends) = 1
    /\ sends[1].state = "failed"
    /\ chatHistory = EarlierHistory(49)
    /\ Last(chatMessages).role = "error"
    /\ Cardinality(Shown(chatMessages, "error", 1)) = 1
    /\ Shown(chatMessages, "typing", 1) = {}
    /\ Len(chatMessages) = 100

(***************************************************************************)
(* Properties of the routing.                                              *)
(***************************************************************************)

\* the endpoint the claim gives a file, "" for no request
EndpointByType(file) ==
    IF StartsWith(file.type, "image/") THEN "/ingest_image/stream/"
    ELSE IF file.type = "application/pdf" \/ EndsWith(ToLowerCase(file.name), ".pdf")
         THEN "/ingest_pdf/stream/"
    ELSE ""

\* C28: each file of a batch starts exactly one request chosen by its
\* type: to the image stream endpoint when its MIME type starts with
\* 'image/'; otherwise to the PDF stream endpoint when its MIME type is
\* 'application/pdf' or its lower-cased name ends with '.pdf'; any other
\* file starts no request and is marked 'Unsupported file type' (until
\* the results of the batch are written to the items).
OneRequestByType ==
    \A i \in DOMAIN files :
        LET endpoint == EndpointByType(files[i])
            promises == {k \in DOMAIN uploadPromises : uploadPromises[k] = i}
        IN  /\ xhrs[i].endpoint = endpoint
            /\ endpoint # ""
                  => /\ xhrs[i].readyState >= 1
                     /\ Cardinality(promises) = 1
            /\ endpoint = ""
                  => /\ xhrs[i].readyState = 0
                     /\ promises = {}
                     /\ "file-error" \in fileItems[i].classes
                     /\ ~resultsProcessed
                           => fileItems[i].statusText = "Unsupported file type"

\* an image named like a PDF goes to the image endpoint, next to a text
\* file whose name only holds '.pdf' and starts no request
OneRequestByTypeWitness ==
    /\ files = << Shot, Draft >>
    /\ xhrs[1].endpoint = "/ingest_image/stream/"
    /\ xhrs[1].readyState = 1
    /\ xhrs[2].readyState = 0
    /\ uploadPromises = << 1 >>
    /\ fileItems[2].statusText = "Unsupported file type"

(***************************************************************************)
(* Properties of overlapping rounds of health checks.                      *)
(***************************************************************************)

\* C29: when rounds of health checks overlap, the tree of a round that
\* started earlier never replaces the tree of a round that started later:
\* the trees are rendered in the order the rounds started, so the tree
\* shown in the end is that of the round started last.
LatestRoundShown ==
    \A r1, r2 \in DOMAIN checks :
        (r1 < r2 /\ checks[r1].rendered # 0 /\ checks[r2].rendered # 0)
        => checks[r1].rendered < checks[r2].rendered

(***************************************************************************)
(* Properties of the progress bar.                                         *)
(***************************************************************************)

\* C30: for an image or a PDF upload and any transfer progress and stream
\* events with percent in 0..100, the bar stays within 0..100 percent in
\* every state: within 0..20 while only transfer progress has been seen,
\* and every width set by a progress event, a fragment or a complete event
\* is within 0..100.
BarWithinRange ==
    \A i \in Uploading :
        /\ fileItems[i].width >= 0
        /\ fileItems[i].width <= W(100)
        /\ closures[i].dispatched = << >> => fileItems[i].width <= W(20)
        /\ \A k \in DOMAIN closures[i].widthLog :
              /\ closures[i].widthLog[k].width >= 0
              /\ closures[i].widthLog[k].width <= W(100)

\* an image upload whose whole file was transferred and whose stream sent
\* percent 100 after percent 0: the bar is at 100 percent, after 20
BarWithinRangeWitness ==
    \E i \in ImageUploads :
        /\ xhrs[i].loaded = UploadTotal
        /\ Payloads(closures[i].dispatched) = << Progress0, Progress100 >>
        /\ closures[i].widthLog[1].width = W(20)
        /\ fileItems[i].width = W(100)

=============================================================================
